---- MODULE Spec2Model ----
(***************************************************************************)
(* AgriSite (Django): the entity store of land_analysis/models.py, the     *)
(* write paths (admin console, ModelForms, Model.save / Model.delete) and  *)
(* the aggregation, report and export handlers of land_analysis/views.py,  *)
(* utils.py and context_processors.py.                                     *)
(*                                                                         *)
(* Decimal(max_digits, 2) values are integers counting hundredths:         *)
(* 10.00 is 1000, 7.50 is 750.  A nullable SQL aggregate is a record with  *)
(* a null flag (Sum, Avg over no rows are NULL, Python None).              *)
(***************************************************************************)
EXTENDS Integers, FiniteSets, Sequences, TLC

VARIABLES
    regions,              \* Region rows
    land_holders,         \* LandHolder rows
    land_parcels,         \* LandParcel rows
    irrigation_systems,   \* IrrigationSystem rows
    crops,                \* Crop rows
    cropping_patterns,    \* CroppingPattern rows
    land_analyses,        \* LandAnalysis rows
    REPORTLAB_AVAILABLE,  \* views.py: set once when the module is imported
    users,                \* django.contrib.auth User rows
    resp                  \* the response of the last operation

store == <<regions, land_holders, land_parcels, irrigation_systems, crops,
           cropping_patterns, land_analyses>>

vars == <<regions, land_holders, land_parcels, irrigation_systems, crops,
          cropping_patterns, land_analyses, REPORTLAB_AVAILABLE, users, resp>>

----------------------------------------------------------------------------
(* Bounds of the model: the number of rows (of all tables together) the    *)
(* store may hold under each specification.                                *)

\* Spec: every handler, over the stores a run of creations builds
MaxRows == 5

\* SpecStore: every table's create, edit and delete
MaxStoreRows == 5

\* SpecParcels: regions, holders and parcels with their areas and soil types
MaxParcelRows == 4

\* SpecCrops: crops and cropping patterns
MaxCropRows == 7

\* SpecFaults: the rows of all tables together
MaxFaultRows == 5

----------------------------------------------------------------------------
(* Values the choice fields and the inputs are drawn from.                 *)

\* LandParcel.SOIL_TYPES (a sample of the six choices)
SOIL_TYPES == {"loamy", "clay"}

\* LandHolder.OWNERSHIP_TYPES (a sample of the four choices)
OWNERSHIP_TYPES == {"individual", "corporate"}

\* IrrigationSystem.SYSTEM_TYPES (a sample)
SYSTEM_TYPES == {"drip", "flood"}

\* Crop.CROP_TYPES (a sample)
CROP_TYPES == {"cereal", "pulse"}

\* Crop.SEASONS (a sample)
SEASONS == {"kharif", "rabi"}

Ids(S) == {r.id : r \in S}

\* AutoField primary key: a key no row of the table holds
NewId(S) == CHOOSE i \in 1..(Cardinality(S) + 1) : i \notin Ids(S) /\ \A j \in 1..(i - 1) : j \in Ids(S)

Row(S, pk) == CHOOSE r \in S : r.id = pk

\* Python truthiness of a number: Decimal('0') and 0 are falsy
Truthy(x) == x # 0

----------------------------------------------------------------------------
(* Responses.  A write answers "saved", "deleted" or "rejected" and the     *)
(* number of rows it wrote or deleted (Model.delete() returns that count); *)
(* a request handler answers an HTTP status and what it rendered or        *)
(* serialised.                                                             *)

WriteResp(h, outcome, n) == [handler |-> h, args |-> [rows |-> n], status |-> 0, body |-> outcome]

HttpResp(h, a, st, b) == [handler |-> h, args |-> a, status |-> st, body |-> b]

----------------------------------------------------------------------------
(* models.py: on_delete=CASCADE.  Each operator gives the rows that the    *)
(* deletion of the referenced rows (their primary keys) takes with it.     *)

Cascade_LandHolder_region(region_ids) == {h \in land_holders : h.region \in region_ids}

Cascade_LandParcel_land_holder_None(holder_ids) == {}

Cascade_LandParcel_land_holder(holder_ids) == {p \in land_parcels : p.land_holder \in holder_ids}

Cascade_IrrigationSystem_land_parcel(parcel_ids) == {i \in irrigation_systems : i.land_parcel \in parcel_ids}

Cascade_CroppingPattern_land_parcel(parcel_ids) == {c \in cropping_patterns : c.land_parcel \in parcel_ids}

Cascade_CroppingPattern_crop(crop_ids) == {c \in cropping_patterns : c.crop \in crop_ids}

Cascade_LandAnalysis_land_parcel(parcel_ids) == {a \in land_analyses : a.land_parcel \in parcel_ids}

\* Deleting the parcels ps takes their irrigation systems, cropping patterns and analyses
DeleteParcels(ps) ==
    /\ land_parcels' = land_parcels \ ps
    /\ irrigation_systems' = irrigation_systems \ Cascade_IrrigationSystem_land_parcel(Ids(ps))
    /\ cropping_patterns' = cropping_patterns \ Cascade_CroppingPattern_land_parcel(Ids(ps))
    /\ land_analyses' = land_analyses \ Cascade_LandAnalysis_land_parcel(Ids(ps))

\* the rows DeleteParcels(ps) deletes
DeletedWithParcels(ps) ==
    Cardinality(ps) + Cardinality(Cascade_IrrigationSystem_land_parcel(Ids(ps)))
    + Cardinality(Cascade_CroppingPattern_land_parcel(Ids(ps)))
    + Cardinality(Cascade_LandAnalysis_land_parcel(Ids(ps)))

----------------------------------------------------------------------------
(* Region, LandHolder: created and deleted through the admin console.      *)

Region_save(name) ==
    /\ regions' = regions \cup {[id |-> NewId(regions), name |-> name]}
    /\ resp' = WriteResp("Region", "saved", 1)
    /\ UNCHANGED <<land_holders, land_parcels, irrigation_systems, crops,
                   cropping_patterns, land_analyses, REPORTLAB_AVAILABLE, users>>

Region_delete(pk) ==
    /\ pk \in Ids(regions)
    /\ LET hs == Cascade_LandHolder_region({pk})
       IN  /\ regions' = regions \ {Row(regions, pk)}
           /\ land_holders' = land_holders \ hs
           /\ DeleteParcels(Cascade_LandParcel_land_holder(Ids(hs)))
           /\ resp' = WriteResp("Region", "deleted", 1 + Cardinality(hs)
                  + DeletedWithParcels(Cascade_LandParcel_land_holder(Ids(hs))))
    /\ UNCHANGED <<crops, REPORTLAB_AVAILABLE, users>>

LandHolder_save(region, ownership_type) ==
    /\ region \in Ids(regions)
    /\ land_holders' = land_holders \cup
           {[id |-> NewId(land_holders), region |-> region,
             ownership_type |-> ownership_type]}
    /\ resp' = WriteResp("LandHolder", "saved", 1)
    /\ UNCHANGED <<regions, land_parcels, irrigation_systems, crops,
                   cropping_patterns, land_analyses, REPORTLAB_AVAILABLE, users>>

LandHolder_delete(pk) ==
    /\ pk \in Ids(land_holders)
    /\ land_holders' = land_holders \ {Row(land_holders, pk)}
    /\ DeleteParcels(Cascade_LandParcel_land_holder({pk}))
    /\ resp' = WriteResp("LandHolder", "deleted",
                         1 + DeletedWithParcels(Cascade_LandParcel_land_holder({pk})))
    /\ UNCHANGED <<regions, crops, REPORTLAB_AVAILABLE, users>>

----------------------------------------------------------------------------
(* LandParcel.  The model fields total_area and cultivated_area carry no   *)
(* validators; LandParcelForm.clean is the only comparison of the two.     *)

LandParcelRow(pk, land_holder, total_area, cultivated_area, soil_type) ==
    [id |-> pk, land_holder |-> land_holder, total_area |-> total_area,
     cultivated_area |-> cultivated_area, soil_type |-> soil_type]

\* forms.py LandParcelForm.clean: TRUE when the form is valid
LandParcelForm_clean(total_area, cultivated_area) ==
    ~(Truthy(total_area) /\ Truthy(cultivated_area) /\ cultivated_area > total_area)

\* LandParcelAdmin (a ModelForm with no clean of its own) or LandParcel(...).save()
LandParcel_save(land_holder, total_area, cultivated_area, soil_type) ==
    /\ land_holder \in Ids(land_holders)
    /\ land_parcels' = land_parcels \cup
           {LandParcelRow(NewId(land_parcels), land_holder, total_area,
                          cultivated_area, soil_type)}
    /\ resp' = WriteResp("LandParcel", "saved", 1)
    /\ UNCHANGED <<regions, land_holders, irrigation_systems, crops,
                   cropping_patterns, land_analyses, REPORTLAB_AVAILABLE, users>>

\* LandParcelForm(data).is_valid() and form.save()
LandParcelForm_save(land_holder, total_area, cultivated_area, soil_type) ==
    /\ land_holder \in Ids(land_holders)
    /\ IF LandParcelForm_clean(total_area, cultivated_area)
       THEN /\ land_parcels' = land_parcels \cup
                   {LandParcelRow(NewId(land_parcels), land_holder, total_area,
                                  cultivated_area, soil_type)}
            /\ resp' = WriteResp("LandParcelForm", "saved", 1)
       ELSE /\ land_parcels' = land_parcels
            /\ resp' = WriteResp("LandParcelForm", "rejected", 0)
    /\ UNCHANGED <<regions, land_holders, irrigation_systems, crops,
                   cropping_patterns, land_analyses, REPORTLAB_AVAILABLE, users>>

\* the admin change form or a direct save of a loaded instance
LandParcel_edit(pk, total_area, cultivated_area) ==
    /\ pk \in Ids(land_parcels)
    /\ LET old == Row(land_parcels, pk)
       IN  land_parcels' = (land_parcels \ {old}) \cup
               {LandParcelRow(pk, old.land_holder, total_area, cultivated_area, old.soil_type)}
    /\ resp' = WriteResp("LandParcel", "saved", 1)
    /\ UNCHANGED <<regions, land_holders, irrigation_systems, crops,
                   cropping_patterns, land_analyses, REPORTLAB_AVAILABLE, users>>

\* LandParcelForm(data, instance=parcel)
LandParcelForm_edit(pk, total_area, cultivated_area) ==
    /\ pk \in Ids(land_parcels)
    /\ LET old == Row(land_parcels, pk)
       IN  IF LandParcelForm_clean(total_area, cultivated_area)
           THEN /\ land_parcels' = (land_parcels \ {old}) \cup
                       {LandParcelRow(pk, old.land_holder, total_area, cultivated_area,
                                      old.soil_type)}
                /\ resp' = WriteResp("LandParcelForm", "saved", 1)
           ELSE /\ land_parcels' = land_parcels
                /\ resp' = WriteResp("LandParcelForm", "rejected", 0)
    /\ UNCHANGED <<regions, land_holders, irrigation_systems, crops,
                   cropping_patterns, land_analyses, REPORTLAB_AVAILABLE, users>>

LandParcel_delete(pk) ==
    /\ pk \in Ids(land_parcels)
    /\ DeleteParcels({Row(land_parcels, pk)})
    /\ resp' = WriteResp("LandParcel", "deleted", DeletedWithParcels({Row(land_parcels, pk)}))
    /\ UNCHANGED <<regions, land_holders, crops, REPORTLAB_AVAILABLE, users>>

----------------------------------------------------------------------------
(* IrrigationSystem (one per parcel), Crop, LandAnalysis.                  *)

\* OneToOneField: the key column is unique
OneToOne_land_parcel(land_parcel) == \A i \in irrigation_systems : i.land_parcel # land_parcel

IrrigationSystem_save(land_parcel, system_type, efficiency_rating, annual_water_usage) ==
    /\ land_parcel \in Ids(land_parcels)
    /\ IF OneToOne_land_parcel(land_parcel)
       THEN /\ irrigation_systems' = irrigation_systems \cup
                   {[id |-> NewId(irrigation_systems), land_parcel |-> land_parcel,
                     system_type |-> system_type, efficiency_rating |-> efficiency_rating,
                     annual_water_usage |-> annual_water_usage]}
            /\ resp' = WriteResp("IrrigationSystem", "saved", 1)
       ELSE /\ irrigation_systems' = irrigation_systems
            /\ resp' = WriteResp("IrrigationSystem", "rejected", 0)
    /\ UNCHANGED <<regions, land_holders, land_parcels, crops, cropping_patterns,
                   land_analyses, REPORTLAB_AVAILABLE, users>>

IrrigationSystem_delete(pk) ==
    /\ pk \in Ids(irrigation_systems)
    /\ irrigation_systems' = irrigation_systems \ {Row(irrigation_systems, pk)}
    /\ resp' = WriteResp("IrrigationSystem", "deleted", 1)
    /\ UNCHANGED <<regions, land_holders, land_parcels, crops, cropping_patterns,
                   land_analyses, REPORTLAB_AVAILABLE, users>>

Crop_save(name, crop_type) ==
    /\ crops' = crops \cup {[id |-> NewId(crops), name |-> name, crop_type |-> crop_type]}
    /\ resp' = WriteResp("Crop", "saved", 1)
    /\ UNCHANGED <<regions, land_holders, land_parcels, irrigation_systems,
                   cropping_patterns, land_analyses, REPORTLAB_AVAILABLE, users>>

Crop_delete(pk) ==
    /\ pk \in Ids(crops)
    /\ crops' = crops \ {Row(crops, pk)}
    /\ cropping_patterns' = cropping_patterns \ Cascade_CroppingPattern_crop({pk})
    /\ resp' = WriteResp("Crop", "deleted", 1 + Cardinality(Cascade_CroppingPattern_crop({pk})))
    /\ UNCHANGED <<regions, land_holders, land_parcels, irrigation_systems,
                   land_analyses, REPORTLAB_AVAILABLE, users>>

LandAnalysis_save(land_parcel, productivity_score) ==
    /\ land_parcel \in Ids(land_parcels)
    /\ land_analyses' = land_analyses \cup
           {[id |-> NewId(land_analyses), land_parcel |-> land_parcel,
             productivity_score |-> productivity_score]}
    /\ resp' = WriteResp("LandAnalysis", "saved", 1)
    /\ UNCHANGED <<regions, land_holders, land_parcels, irrigation_systems, crops,
                   cropping_patterns, REPORTLAB_AVAILABLE, users>>

LandAnalysis_delete(pk) ==
    /\ pk \in Ids(land_analyses)
    /\ land_analyses' = land_analyses \ {Row(land_analyses, pk)}
    /\ resp' = WriteResp("LandAnalysis", "deleted", 1)
    /\ UNCHANGED <<regions, land_holders, land_parcels, irrigation_systems, crops,
                   cropping_patterns, REPORTLAB_AVAILABLE, users>>

----------------------------------------------------------------------------
(* CroppingPattern: Meta.unique_together = land_parcel, crop, year, season *)

CroppingPatternRow(pk, land_parcel, crop, year, season, area_allocated, yield_amount, revenue) ==
    [id |-> pk, land_parcel |-> land_parcel, crop |-> crop, year |-> year, season |-> season,
     area_allocated |-> area_allocated, yield_amount |-> yield_amount, revenue |-> revenue]

SameTuple(a, b) ==
    /\ a.land_parcel = b.land_parcel
    /\ a.crop = b.crop
    /\ a.year = b.year
    /\ a.season = b.season

\* a model with no unique_together in its Meta
unique_together_Missing(row) == TRUE

\* the unique constraint (ModelForm.validate_unique, and the database's unique index):
\* TRUE when no other row holds the tuple of row
unique_together(row) == \A c \in cropping_patterns : c.id # row.id => ~SameTuple(c, row)

CroppingPattern_save(land_parcel, crop, year, season, area_allocated, yield_amount, revenue) ==
    /\ land_parcel \in Ids(land_parcels)
    /\ crop \in Ids(crops)
    /\ LET row == CroppingPatternRow(NewId(cropping_patterns), land_parcel, crop,
                                     year, season, area_allocated, yield_amount, revenue)
       IN  IF unique_together(row)
           THEN /\ cropping_patterns' = cropping_patterns \cup {row}
                /\ resp' = WriteResp("CroppingPattern", "saved", 1)
           ELSE /\ cropping_patterns' = cropping_patterns
                /\ resp' = WriteResp("CroppingPattern", "rejected", 0)
    /\ UNCHANGED <<regions, land_holders, land_parcels, irrigation_systems, crops,
                   land_analyses, REPORTLAB_AVAILABLE, users>>

CroppingPattern_edit(pk, year, season) ==
    /\ pk \in Ids(cropping_patterns)
    /\ LET old == Row(cropping_patterns, pk)
           row == [old EXCEPT !.year = year, !.season = season]
       IN  IF unique_together(row)
           THEN /\ cropping_patterns' = (cropping_patterns \ {old}) \cup {row}
                /\ resp' = WriteResp("CroppingPattern", "saved", 1)
           ELSE /\ cropping_patterns' = cropping_patterns
                /\ resp' = WriteResp("CroppingPattern", "rejected", 0)
    /\ UNCHANGED <<regions, land_holders, land_parcels, irrigation_systems, crops,
                   land_analyses, REPORTLAB_AVAILABLE, users>>

CroppingPattern_delete(pk) ==
    /\ pk \in Ids(cropping_patterns)
    /\ cropping_patterns' = cropping_patterns \ {Row(cropping_patterns, pk)}
    /\ resp' = WriteResp("CroppingPattern", "deleted", 1)
    /\ UNCHANGED <<regions, land_holders, land_parcels, irrigation_systems, crops,
                   land_analyses, REPORTLAB_AVAILABLE, users>>

----------------------------------------------------------------------------
(* The ORM's aggregates.  Sum and Avg over no rows are NULL (None); Count  *)
(* is 0.  An average is kept exact, as the sum and the number of rows.     *)

NULL == [null |-> TRUE, v |-> 0]

Dec(x) == [null |-> FALSE, v |-> x]

NULL_AVG == [null |-> TRUE, num |-> 0, den |-> 1]

RECURSIVE SumField(_, _)
SumField(S, f) ==
    IF S = {} THEN 0
    ELSE LET r == CHOOSE x \in S : TRUE IN r[f] + SumField(S \ {r}, f)

SqlSum(S, f) == IF S = {} THEN NULL ELSE Dec(SumField(S, f))

SqlAvg(S, f) ==
    IF S = {} THEN NULL_AVG
    ELSE [null |-> FALSE, num |-> SumField(S, f), den |-> Cardinality(S)]

\* the idiom  aggregate(...)[key] or 0  with the "or 0" left out
OrZero_Missing(x) == IF x.null THEN -1 ELSE x.v

\* aggregate(...)[key] or 0 : None and Decimal('0') both give 0
OrZero(x) == IF x.null THEN 0 ELSE x.v

ZERO_AVG == [null |-> FALSE, num |-> 0, den |-> 1]

\* aggregate(Avg(...))[key] or 0
AvgOrZero(a) == IF a.null \/ a.num = 0 THEN ZERO_AVG ELSE a

\* Avg(a) / Avg(b) inside the database: NULL when an operand is NULL; a zero
\* divisor is NULL on SQLite and MySQL and an error on PostgreSQL ("raised")
SqlDivAvg(a, b) ==
    IF a.null \/ b.null THEN [null |-> TRUE, num |-> 0, den |-> 1, raised |-> FALSE]
    ELSE IF b.num = 0 THEN [null |-> TRUE, num |-> 0, den |-> 1, raised |-> TRUE]
    ELSE [null |-> FALSE, num |-> a.num * b.den, den |-> a.den * b.num, raised |-> FALSE]

----------------------------------------------------------------------------
(* Joins along the foreign keys, and the request parameters.               *)

HolderOf(p) == Row(land_holders, p.land_holder)

RegionIdOf(p) == HolderOf(p).region

RegionNameOf(p) == Row(regions, RegionIdOf(p)).name

ParcelOf(x) == Row(land_parcels, x.land_parcel)

\* holder.parcels (related_name='parcels')
ParcelsOfHolder(holder_id) == {p \in land_parcels : p.land_holder = holder_id}

CropOf(c) == Row(crops, c.crop)

\* request.GET.get(key): absent, a number, or text that is no number
NoParam == [given |-> FALSE, numeric |-> FALSE, v |-> 0]

IntParam(i) == [given |-> TRUE, numeric |-> TRUE, v |-> i]

TextParam == [given |-> TRUE, numeric |-> FALSE, v |-> 0]

\* filter(land_holder__region_id=<text>) raises ValueError
BadRegionParam(region) == region.given /\ ~region.numeric

----------------------------------------------------------------------------
(* The grouped queries: values(key).annotate(...).                         *)

\* the soil grouping with Sum('cultivated_area') in the place of Sum('total_area')
soil_distribution_of_Cultivated(P) ==
    {[soil_type |-> s,
      count |-> Cardinality({p \in P : p.soil_type = s}),
      total_area |-> SqlSum({p \in P : p.soil_type = s}, "cultivated_area")] :
        s \in {p.soil_type : p \in P}}

\* LandParcel rows P grouped by soil_type
soil_distribution_of(P) ==
    {[soil_type |-> s,
      count |-> Cardinality({p \in P : p.soil_type = s}),
      total_area |-> SqlSum({p \in P : p.soil_type = s}, "total_area")] :
        s \in {p.soil_type : p \in P}}

\* IrrigationSystem rows I grouped by system_type (the callers annotate one, two or
\* all three of these columns)
irrigation_distribution_of(I) ==
    {[system_type |-> t,
      count |-> Cardinality({i \in I : i.system_type = t}),
      avg_efficiency |-> SqlAvg({i \in I : i.system_type = t}, "efficiency_rating"),
      avg_water_usage |-> SqlAvg({i \in I : i.system_type = t}, "annual_water_usage")] :
        t \in {i.system_type : i \in I}}

\* CroppingPattern rows C grouped by crop__name
crop_groups_of(C) ==
    {[crop__name |-> n,
      total_area |-> SqlSum({c \in C : CropOf(c).name = n}, "area_allocated"),
      total_yield |-> SqlSum({c \in C : CropOf(c).name = n}, "yield_amount"),
      avg_yield |-> SqlAvg({c \in C : CropOf(c).name = n}, "yield_amount"),
      total_revenue |-> SqlSum({c \in C : CropOf(c).name = n}, "revenue")] :
        n \in {CropOf(c).name : c \in C}}

\* CroppingPattern rows C grouped by crop__crop_type
crop_distribution_of(C) ==
    {[crop__crop_type |-> t,
      total_area |-> SqlSum({c \in C : CropOf(c).crop_type = t}, "area_allocated"),
      avg_yield |-> SqlAvg({c \in C : CropOf(c).crop_type = t}, "yield_amount")] :
        t \in {CropOf(c).crop_type : c \in C}}

\* LandParcel rows P grouped by land_holder__region__name
region_stats_of(P) ==
    {[land_holder__region__name |-> n,
      parcel_count |-> Cardinality({p \in P : RegionNameOf(p) = n}),
      total_area |-> SqlSum({p \in P : RegionNameOf(p) = n}, "total_area"),
      cultivated_area |-> SqlSum({p \in P : RegionNameOf(p) = n}, "cultivated_area")] :
        n \in {RegionNameOf(p) : p \in P}}

\* CroppingPattern rows C grouped by year (the callers order the groups by year)
year_groups_of(C) ==
    {[year |-> y,
      total_yield |-> SqlSum({c \in C : c.year = y}, "yield_amount"),
      total_revenue |-> SqlSum({c \in C : c.year = y}, "revenue"),
      total_area |-> SqlSum({c \in C : c.year = y}, "area_allocated")] :
        y \in {c.year : c \in C}}

\* a queryset of groups ordered by the other field of its rows
RECURSIVE order_by_Descending(_, _)
order_by_Descending(S, field) ==
    IF S = {} THEN <<>>
    ELSE LET first == CHOOSE g \in S : \A x \in S : g[field] >= x[field]
         IN  <<first>> \o order_by_Descending(S \ {first}, field)

\* .order_by(field) and list(): the groups S as a list in ascending order of field
RECURSIVE order_by(_, _)
order_by(S, field) ==
    IF S = {} THEN <<>>
    ELSE LET first == CHOOSE g \in S : \A x \in S : g[field] <= x[field]
         IN  <<first>> \o order_by(S \ {first}, field)

\* LandHolder LEFT JOIN LandParcel, grouped by ownership_type: Count('id') counts the
\* joined rows, so a holder counts once per parcel (once when it has none)
land_holding_of(H) ==
    {[ownership_type |-> t,
      count |-> SumField({[id |-> h.id,
                           n |-> IF ParcelsOfHolder(h.id) = {} THEN 1
                                 ELSE Cardinality(ParcelsOfHolder(h.id))] :
                              h \in {x \in H : x.ownership_type = t}}, "n"),
      total_land |-> SqlSum({p \in land_parcels :
                                HolderOf(p) \in H /\ HolderOf(p).ownership_type = t},
                            "total_area")] :
        t \in {h.ownership_type : h \in H}}

----------------------------------------------------------------------------
(* utils.py: generate_land_analysis_charts, calculate_land_utilization_    *)
(* efficiency; context_processors.py: global_stats.                        *)

\* the slice [:10] of the grouped queries
QUERY_LIMIT == 10

\* the rank of group g under order_by('-key'); a query with no order_by (key "") ranks
\* every group alike
Rank(g, key) == IF key = "" THEN 0 ELSE g[key].v

\* the results qs.order_by('-key')[:10] can have over the groups S: the database keeps
\* QUERY_LIMIT rows and leaves out no row with a larger key than a row it keeps; among
\* equal keys, and among all rows when the query has no order_by, SQL fixes no order
LimitChoices(S, key) ==
    IF Cardinality(S) <= QUERY_LIMIT THEN {S}
    ELSE {T \in SUBSET S : /\ Cardinality(T) = QUERY_LIMIT
                           /\ \A g \in T, x \in S \ T : Rank(g, key) >= Rank(x, key)}

\* the slice inside the handlers of Spec, SpecCrops and SpecParcels, whose stores hold
\* at most QUERY_LIMIT groups: the slice is then the whole of S (truncated_query draws
\* the result of a slice that drops groups)
Limit(S) == CHOOSE T \in LimitChoices(S, "") : TRUE

\* utils.py 51-54: the rows of df_crop
chart_crop_data == Limit(crop_groups_of(cropping_patterns))

\* utils.py 58: not df_crop.empty and (df_crop['total_area'] > 0).any()
chart_crop_condition == chart_crop_data # {} /\ \E g \in chart_crop_data : g.total_area.v > 0

\* utils.py 59: df_crop['total_yield'] / df_crop['total_area'] divides in every row of
\* df_crop; these are the rows the division is performed for
chart_crop_divided == IF chart_crop_condition THEN chart_crop_data ELSE {}

\* Decimal / Decimal('0') raises DivisionByZero or InvalidOperation
chart_crop_division_raises == \E g \in chart_crop_divided : g.total_area.v = 0

\* plt.pie raises ValueError on a negative wedge size
pie_raises(rows) == \E g \in rows : g.total_area.v < 0

chart_ownership_data ==
    {[land_holder__ownership_type |-> t,
      total_area |-> SqlSum({p \in land_parcels : HolderOf(p).ownership_type = t}, "total_area"),
      parcel_count |-> Cardinality({p \in land_parcels : HolderOf(p).ownership_type = t})] :
        t \in {HolderOf(p).ownership_type : p \in land_parcels}}

charts_raise ==
    \/ pie_raises(soil_distribution_of(land_parcels))
    \/ chart_crop_division_raises
    \/ pie_raises(chart_ownership_data)

\* an except branch that returns the charts built before the exception
generate_land_analysis_charts_Partial ==
    IF pie_raises(soil_distribution_of(land_parcels)) THEN {}
    ELSE IF chart_crop_division_raises
    THEN (IF soil_distribution_of(land_parcels) # {} THEN {"soil_distribution"} ELSE {})
         \cup (IF irrigation_distribution_of(irrigation_systems) # {}
               THEN {"irrigation_distribution"} ELSE {})
    ELSE (IF soil_distribution_of(land_parcels) # {} THEN {"soil_distribution"} ELSE {})
         \cup (IF irrigation_distribution_of(irrigation_systems) # {}
               THEN {"irrigation_distribution"} ELSE {})
         \cup (IF chart_crop_condition THEN {"crop_productivity"} ELSE {})
         \cup (IF year_groups_of(cropping_patterns) # {} THEN {"production_trend"} ELSE {})
         \cup (IF chart_ownership_data # {} /\ ~pie_raises(chart_ownership_data)
               THEN {"ownership_distribution"} ELSE {})

\* the keys of the returned dict; {} after any exception (utils.py 108-111)
generate_land_analysis_charts ==
    IF charts_raise THEN {}
    ELSE (IF soil_distribution_of(land_parcels) # {} THEN {"soil_distribution"} ELSE {})
         \cup (IF irrigation_distribution_of(irrigation_systems) # {}
               THEN {"irrigation_distribution"} ELSE {})
         \cup (IF chart_crop_condition THEN {"crop_productivity"} ELSE {})
         \cup (IF year_groups_of(cropping_patterns) # {} THEN {"production_trend"} ELSE {})
         \cup (IF chart_ownership_data # {} THEN {"ownership_distribution"} ELSE {})

\* utilization_rate is kept exact: cultivated_land * 100 over total_land
calculate_land_utilization_efficiency ==
    LET total_land == OrZero(SqlSum(land_parcels, "total_area"))
        cultivated_land == OrZero(SqlSum(land_parcels, "cultivated_area"))
    IN  [total_land |-> total_land,
         cultivated_land |-> cultivated_land,
         utilization_rate |-> IF total_land > 0
                              THEN [num |-> cultivated_land * 100, den |-> total_land]
                              ELSE [num |-> 0, den |-> 1],
         uncultivated_land |-> total_land - cultivated_land]

global_stats ==
    [total_land_holders |-> Cardinality(land_holders),
     total_parcels |-> Cardinality(land_parcels),
     total_cultivated_area |-> OrZero(SqlSum(land_parcels, "cultivated_area")),
     total_crops_planted |-> Cardinality(cropping_patterns)]

----------------------------------------------------------------------------
(* views.py: home and dashboard.                                           *)

\* QuerySet.dates(field, kind) annotates Trunc(field), which raises when the field is
\* no DateField, TimeField or DateTimeField
QuerySet_dates_raises(field_type) == field_type \notin {"DateField", "TimeField", "DateTimeField"}

\* models.py: CroppingPattern.year = models.IntegerField()
CroppingPattern_year_field == "IntegerField"

home_context ==
    IF QuerySet_dates_raises(CroppingPattern_year_field)
    THEN [total_land_holders |-> 0, total_parcels |-> 0, total_cultivated_area |-> 0,
          recent_parcels |-> {}, regions |-> {}, crops |-> {}, years |-> {}]
    ELSE [total_land_holders |-> Cardinality(land_holders),
          total_parcels |-> Cardinality(land_parcels),
          total_cultivated_area |-> OrZero(SqlSum(land_parcels, "cultivated_area")),
          recent_parcels |-> Ids(land_parcels), regions |-> Ids(regions),
          crops |-> Ids(crops), years |-> {c.year : c \in cropping_patterns}]

dashboard_context ==
    IF QuerySet_dates_raises(CroppingPattern_year_field)
    THEN [stats |-> [total_land_holders |-> 0, total_parcels |-> 0,
                     total_cultivated_area |-> 0, avg_productivity |-> ZERO_AVG],
          region_data |-> {}, irrigation_data |-> {}, crop_data |-> {}, charts |-> {},
          regions |-> {}, crops |-> {}, years |-> {}]
    ELSE [stats |-> [total_land_holders |-> Cardinality(land_holders),
                     total_parcels |-> Cardinality(land_parcels),
                     total_cultivated_area |-> OrZero(SqlSum(land_parcels, "cultivated_area")),
                     avg_productivity |-> AvgOrZero(SqlAvg(land_analyses, "productivity_score"))],
          region_data |-> region_stats_of(land_parcels),
          irrigation_data |-> irrigation_distribution_of(irrigation_systems),
          crop_data |-> Limit(crop_groups_of(cropping_patterns)),
          charts |-> generate_land_analysis_charts,
          regions |-> Ids(regions), crops |-> Ids(crops),
          years |-> {c.year : c \in cropping_patterns}]

----------------------------------------------------------------------------
(* views.py: the parcel pages.                                             *)

\* the parcel filter with the region parameter not applied
FilterParcels_NoRegion(region, soil_type) ==
    {p \in land_parcels : soil_type # "" => p.soil_type = soil_type}

\* the parcels a region and a soil_type parameter select (both optional)
FilterParcels(region, soil_type) ==
    {p \in land_parcels :
        /\ region.given => RegionIdOf(p) = region.v
        /\ soil_type # "" => p.soil_type = soil_type}

land_parcel_list_context(region, soil_type) ==
    IF BadRegionParam(region)
    THEN [parcels |-> {}, regions |-> {}, total_area |-> 0, cultivated_area |-> 0,
          unique_crops |-> 0]
    ELSE LET parcels == FilterParcels(region, soil_type)
         IN  [parcels |-> Ids(parcels), regions |-> Ids(regions),
              total_area |-> OrZero(SqlSum(parcels, "total_area")),
              cultivated_area |-> OrZero(SqlSum(parcels, "cultivated_area")),
              unique_crops |-> Cardinality({c.crop : c \in
                                  {x \in cropping_patterns : x.land_parcel \in Ids(parcels)}})]

\* round(n / d, 0) for d > 0, ties to the even neighbour (Decimal's ROUND_HALF_EVEN)
RoundHalfEven(n, d) ==
    LET q == n \div d
        r == n - q * d
    IN  IF 2 * r > d THEN q + 1
        ELSE IF 2 * r < d THEN q
        ELSE IF q % 2 = 0 THEN q ELSE q + 1

\* round(cultivated_area / total_area * 100, 1), in tenths of a percent
cultivation_percentage(parcel) ==
    IF parcel.total_area > 0
    THEN RoundHalfEven(parcel.cultivated_area * 1000, parcel.total_area)
    ELSE 0

\* get_object_or_404 raises Http404, which "except LandParcel.DoesNotExist" does not
\* catch: the framework answers 404
land_parcel_detail_response(pk) ==
    IF pk \notin Ids(land_parcels)
    THEN HttpResp("land_parcel_detail", [pk |-> pk], 404, [template |-> "404"])
    ELSE LET parcel == Row(land_parcels, pk)
         IN  HttpResp("land_parcel_detail", [pk |-> pk], 200,
                 [template |-> "land_parcel_detail",
                  parcel |-> parcel,
                  cropping_history |-> {c \in cropping_patterns : c.land_parcel = pk},
                  analyses |-> {a \in land_analyses : a.land_parcel = pk},
                  cultivation_percentage |-> cultivation_percentage(parcel)])

----------------------------------------------------------------------------
(* views.py: analysis_reports, region_analysis, crop_analysis.             *)

analysis_reports_context ==
    [land_holding_analysis |-> land_holding_of(land_holders),
     irrigation_efficiency |-> irrigation_distribution_of(irrigation_systems),
     crop_productivity |-> crop_groups_of(cropping_patterns),
     production_trend |-> order_by(year_groups_of(cropping_patterns), "year"),
     regions |-> Ids(regions),
     total_land_area |-> OrZero(SqlSum(land_parcels, "total_area")),
     total_cultivated_area |-> OrZero(SqlSum(land_parcels, "cultivated_area"))]

ParcelsInRegion(region_id) == {p \in land_parcels : RegionIdOf(p) = region_id}

\* views.py 740-747: aggregate() over the region's parcels
region_stats_aggregate(P) ==
    [total_parcels |-> Cardinality(P),
     total_area |-> SqlSum(P, "total_area"),
     avg_parcel_size |-> SqlAvg(P, "total_area"),
     cultivated_percentage |-> SqlDivAvg(SqlAvg(P, "cultivated_area"), SqlAvg(P, "total_area"))]

\* div0_raises: the database raises on a zero divisor (PostgreSQL) instead of giving NULL
region_analysis_response(region_id, div0_raises) ==
    IF region_id \notin Ids(regions)
    THEN HttpResp("region_analysis", [region_id |-> region_id], 404, [template |-> "404"])
    ELSE LET P == ParcelsInRegion(region_id)
             stats == region_stats_aggregate(P)
         IN  IF div0_raises /\ stats.cultivated_percentage.raised
             THEN HttpResp("region_analysis", [region_id |-> region_id], 200,
                      [template |-> "region_analysis", region |-> region_id,
                       failed |-> TRUE, region_stats |-> <<>>,
                       top_crops |-> {}, soil_distribution |-> {}, irrigation_systems |-> {}])
             ELSE HttpResp("region_analysis", [region_id |-> region_id], 200,
                      [template |-> "region_analysis", region |-> region_id,
                       failed |-> FALSE, region_stats |-> stats,
                       top_crops |-> Limit(crop_groups_of(
                           {c \in cropping_patterns : c.land_parcel \in Ids(P)})),
                       soil_distribution |-> soil_distribution_of(P),
                       irrigation_systems |-> irrigation_distribution_of(
                           {i \in irrigation_systems : i.land_parcel \in Ids(P)})])

\* views.py 799-807: aggregate() over the crop's patterns
crop_stats_aggregate(C) ==
    [total_area |-> SqlSum(C, "area_allocated"),
     total_yield |-> SqlSum(C, "yield_amount"),
     avg_yield_per_hectare |-> SqlDivAvg(SqlAvg(C, "yield_amount"), SqlAvg(C, "area_allocated")),
     total_revenue |-> SqlSum(C, "revenue"),
     avg_revenue_per_hectare |-> SqlDivAvg(SqlAvg(C, "revenue"), SqlAvg(C, "area_allocated"))]

\* CroppingPattern rows C grouped by season
seasonal_performance_of(C) ==
    {[season |-> n,
      avg_yield |-> SqlAvg({c \in C : c.season = n}, "yield_amount"),
      avg_revenue |-> SqlAvg({c \in C : c.season = n}, "revenue"),
      total_area |-> SqlSum({c \in C : c.season = n}, "area_allocated")] :
        n \in {c.season : c \in C}}

\* CroppingPattern rows C grouped by the region of their parcel's holder
regional_distribution_of(C) ==
    {[region_id |-> r,
      area |-> SqlSum({c \in C : RegionIdOf(ParcelOf(c)) = r}, "area_allocated"),
      yield_amount |-> SqlSum({c \in C : RegionIdOf(ParcelOf(c)) = r}, "yield_amount"),
      revenue |-> SqlSum({c \in C : RegionIdOf(ParcelOf(c)) = r}, "revenue")] :
        r \in {RegionIdOf(ParcelOf(c)) : c \in C}}

crop_analysis_response(crop_id, div0_raises) ==
    IF crop_id \notin Ids(crops)
    THEN HttpResp("crop_analysis", [crop_id |-> crop_id], 404, [template |-> "404"])
    ELSE LET C == {c \in cropping_patterns : c.crop = crop_id}
             stats == crop_stats_aggregate(C)
         IN  IF div0_raises /\ stats.avg_yield_per_hectare.raised
             THEN HttpResp("crop_analysis", [crop_id |-> crop_id], 200,
                      [template |-> "crop_analysis", crop |-> crop_id,
                       failed |-> TRUE, crop_stats |-> <<>>,
                       regional_distribution |-> {}, seasonal_performance |-> {},
                       yearly_trend |-> <<>>])
             ELSE HttpResp("crop_analysis", [crop_id |-> crop_id], 200,
                      [template |-> "crop_analysis", crop |-> crop_id,
                       failed |-> FALSE, crop_stats |-> stats,
                       regional_distribution |-> regional_distribution_of(C),
                       seasonal_performance |-> seasonal_performance_of(C),
                       yearly_trend |-> order_by(year_groups_of(C), "year")])

----------------------------------------------------------------------------
(* views.py: the JSON APIs and the export.                                 *)

\* a statistics API without its except clause: the framework's error page answers
api_land_stats_response_Uncaught(region, soil_type, time_period) ==
    IF BadRegionParam(region)
    THEN HttpResp("api_land_stats",
             [region |-> region, soil_type |-> soil_type,
              time_period |-> IF time_period = "" THEN "30d" ELSE time_period], 500,
             [template |-> "500"])
    ELSE LET P == FilterParcels(region, soil_type)
             I == {i \in irrigation_systems : i.land_parcel \in Ids(P)}
             C == {c \in cropping_patterns : c.land_parcel \in Ids(P)}
         IN  HttpResp("api_land_stats",
             [region |-> region, soil_type |-> soil_type,
              time_period |-> IF time_period = "" THEN "30d" ELSE time_period], 200,
                 [soil_distribution |-> soil_distribution_of(P),
                  irrigation_distribution |-> irrigation_distribution_of(I),
                  crop_distribution |-> crop_distribution_of(C),
                  region_stats |-> region_stats_of(land_parcels),
                  status |-> "success"])

\* views.py 865-916.  region_stats is grouped over LandParcel.objects, not over the
\* filtered land_parcels; the message of the error object is str(e)
\* views.py 862: time_period is read, with the default '30d' when the parameter is
\* omitted (""), and never used
api_land_stats_response(region, soil_type, time_period) ==
    IF BadRegionParam(region)
    THEN HttpResp("api_land_stats",
             [region |-> region, soil_type |-> soil_type,
              time_period |-> IF time_period = "" THEN "30d" ELSE time_period], 500,
             [status |-> "error", message |-> "Field 'id' expected a number"])
    ELSE LET P == FilterParcels(region, soil_type)
             I == {i \in irrigation_systems : i.land_parcel \in Ids(P)}
             C == {c \in cropping_patterns : c.land_parcel \in Ids(P)}
         IN  HttpResp("api_land_stats",
             [region |-> region, soil_type |-> soil_type,
              time_period |-> IF time_period = "" THEN "30d" ELSE time_period], 200,
                 [soil_distribution |-> soil_distribution_of(P),
                  irrigation_distribution |-> irrigation_distribution_of(I),
                  crop_distribution |-> crop_distribution_of(C),
                  region_stats |-> region_stats_of(land_parcels),
                  status |-> "success"])

ANALYSIS_TYPES == {"comprehensive", "land", "irrigation", "crops", "trends"}

\* a section the analysis type does not ask for is left out of the object (here: {})
\* views.py 1012: region (and time_period) are read from the query string and never
\* used: every grouping is over the whole table
api_analysis_data_response(analysis_type, region, time_period) ==
    HttpResp("api_analysis_data",
        [type |-> analysis_type, region |-> region,
         time_period |-> IF time_period = "" THEN "30d" ELSE time_period], 200,
        [land_analysis |-> IF analysis_type \in {"comprehensive", "land"}
                           THEN land_holding_of(land_holders) ELSE {},
         irrigation_analysis |-> IF analysis_type \in {"comprehensive", "irrigation"}
                                 THEN irrigation_distribution_of(irrigation_systems) ELSE {},
         crop_analysis |-> IF analysis_type \in {"comprehensive", "crops"}
                           THEN crop_groups_of(cropping_patterns) ELSE {},
         production_trends |-> IF analysis_type \in {"comprehensive", "trends"}
                               THEN order_by(year_groups_of(cropping_patterns), "year")
                               ELSE <<>>,
         status |-> "success"])

DATA_TYPES == {"land_parcels", "cropping_patterns", "irrigation_systems", "comprehensive_report"}

\* the values(...) rows of the three flat exports (a holder's and a parcel's name is its key)
export_rows(data_type) ==
    CASE data_type = "land_parcels" ->
            {[parcel_id |-> p.id, total_area |-> p.total_area,
              cultivated_area |-> p.cultivated_area, soil_type |-> p.soil_type,
              land_holder__name |-> p.land_holder,
              land_holder__region__name |-> RegionNameOf(p)] : p \in land_parcels}
      [] data_type = "cropping_patterns" ->
            {[crop__name |-> CropOf(c).name, year |-> c.year, season |-> c.season,
              area_allocated |-> c.area_allocated, yield_amount |-> c.yield_amount,
              revenue |-> c.revenue, land_parcel__parcel_id |-> c.land_parcel] :
                c \in cropping_patterns}
      [] OTHER ->
            {[system_type |-> i.system_type, efficiency_rating |-> i.efficiency_rating,
              annual_water_usage |-> i.annual_water_usage,
              land_parcel__parcel_id |-> i.land_parcel] : i \in irrigation_systems}

export_columns(data_type) ==
    CASE data_type = "land_parcels" ->
            <<"parcel_id", "total_area", "cultivated_area", "soil_type",
              "land_holder__name", "land_holder__region__name">>
      [] data_type = "cropping_patterns" ->
            <<"crop__name", "year", "season", "area_allocated", "yield_amount", "revenue",
              "land_parcel__parcel_id">>
      [] OTHER ->
            <<"system_type", "efficiency_rating", "annual_water_usage",
              "land_parcel__parcel_id">>

\* pd.DataFrame(list(data)): the columns are the keys of the rows, none when there is no row
DataFrame_columns(data_type) ==
    IF export_rows(data_type) = {} THEN <<>> ELSE export_columns(data_type)

generate_comprehensive_report_response(data_type, format) ==
    HttpResp("export_data", [data_type |-> data_type, format |-> format], 200,
        [content_type |-> "application/json",
         columns |-> <<>>,
         rows |-> {},
         report |-> [summary |-> [total_land_holders |-> Cardinality(land_holders),
                                  total_parcels |-> Cardinality(land_parcels),
                                  total_cultivated_area |->
                                      OrZero(SqlSum(land_parcels, "cultivated_area")),
                                  total_revenue |->
                                      OrZero(SqlSum(cropping_patterns, "revenue"))],
                     land_analysis |-> land_holding_of(land_holders),
                     crop_analysis |-> crop_groups_of(cropping_patterns),
                     irrigation_analysis |-> irrigation_distribution_of(irrigation_systems)]])

\* format "" is a request with no format parameter
export_data_response(data_type, format) ==
    IF data_type = "comprehensive_report"
    THEN generate_comprehensive_report_response(data_type, format)
    ELSE IF data_type \notin DATA_TYPES
    THEN HttpResp("export_data", [data_type |-> data_type, format |-> format], 400,
             [content_type |-> "application/json", columns |-> <<>>, rows |-> {},
              report |-> <<>>])
    ELSE HttpResp("export_data", [data_type |-> data_type, format |-> format], 200,
             [content_type |-> IF format = "csv" THEN "text/csv"
                               ELSE IF format = "excel" THEN "application/vnd.ms-excel"
                               ELSE "application/json",
              columns |-> IF format \in {"csv", "excel"} THEN DataFrame_columns(data_type)
                          ELSE <<>>,
              rows |-> export_rows(data_type),
              report |-> <<>>])

----------------------------------------------------------------------------
(* views.py: the document reports.  A story is a sequence of flowables; a  *)
(* table's rows are kept as a set of records, its numbers unformatted.     *)

Paragraph(text) == [kind |-> "Paragraph", text |-> text, rows |-> {}]

Spacer == [kind |-> "Spacer", text |-> "", rows |-> {}]

Table(rows) == [kind |-> "Table", text |-> "", rows |-> rows]

_generate_summary_report(story) ==
    story \o
    << Paragraph("Executive Summary"),
       Table({[metric |-> "Total Land Holders", value |-> Cardinality(land_holders)],
              [metric |-> "Total Land Parcels", value |-> Cardinality(land_parcels)],
              [metric |-> "Total Cultivated Area",
               value |-> OrZero(SqlSum(land_parcels, "cultivated_area"))],
              [metric |-> "Total Revenue Generated",
               value |-> OrZero(SqlSum(cropping_patterns, "revenue"))]}),
       Spacer >>

_generate_land_analysis_report(story) ==
    story \o
    << Paragraph("Land Holding Analysis"),
       IF land_holding_of(land_holders) # {}
       THEN Table({[ownership_type |-> g.ownership_type, count |-> g.count,
                    total_land |-> OrZero(g.total_land)] : g \in land_holding_of(land_holders)})
       ELSE Paragraph("No land holding data available."),
       Spacer >>

_generate_crop_analysis_report(story) ==
    story \o
    << Paragraph("Crop Productivity Analysis"),
       IF crop_groups_of(cropping_patterns) # {}
       THEN Table({[crop__name |-> g.crop__name, total_area |-> OrZero(g.total_area),
                    total_yield |-> OrZero(g.total_yield),
                    total_revenue |-> OrZero(g.total_revenue)] :
                        g \in Limit(crop_groups_of(cropping_patterns))})
       ELSE Paragraph("No crop data available."),
       Spacer >>

_generate_irrigation_analysis_report(story) ==
    story \o
    << Paragraph("Irrigation System Analysis"),
       IF irrigation_distribution_of(irrigation_systems) # {}
       THEN Table({[system_type |-> g.system_type, count |-> g.count,
                    avg_efficiency |-> RoundHalfEven(g.avg_efficiency.num * 10,
                                                     g.avg_efficiency.den),
                    avg_water_usage |-> RoundHalfEven(g.avg_water_usage.num,
                                                      g.avg_water_usage.den * 100)] :
                        g \in irrigation_distribution_of(irrigation_systems)})
       ELSE Paragraph("No irrigation data available."),
       Spacer >>

recommendations ==
    << Paragraph("Consider expanding high-revenue crop cultivation"),
       Paragraph("Optimize irrigation systems for better water efficiency"),
       Paragraph("Implement soil health improvement programs"),
       Paragraph("Explore diversification of crop patterns"),
       Paragraph("Invest in modern agricultural technologies") >>

\* a comprehensive report that puts the crop section before the land section
_generate_comprehensive_report_Reordered(story) ==
    _generate_irrigation_analysis_report(
        _generate_land_analysis_report(
            _generate_crop_analysis_report(
                _generate_summary_report(story))))
    \o << Paragraph("Recommendations") >> \o recommendations

_generate_comprehensive_report(story) ==
    _generate_irrigation_analysis_report(
        _generate_crop_analysis_report(
            _generate_land_analysis_report(
                _generate_summary_report(story))))
    \o << Paragraph("Recommendations") >> \o recommendations

REPORT_TYPES == {"summary", "land_analysis", "crop_analysis", "irrigation_analysis",
                 "comprehensive"}

\* a report whose unknown types fall back to the comprehensive report
report_story_Defaulting(report_type) ==
    LET story == << Paragraph("Agricultural Analysis Report"), Spacer,
                    Paragraph("Generated on"), Spacer >>
    IN  CASE report_type = "summary" -> _generate_summary_report(story)
          [] report_type = "land_analysis" -> _generate_land_analysis_report(story)
          [] report_type = "crop_analysis" -> _generate_crop_analysis_report(story)
          [] report_type = "irrigation_analysis" -> _generate_irrigation_analysis_report(story)
          [] OTHER -> _generate_comprehensive_report(story)

\* views.py 421-443: the title, the date, then the sections of the report type
report_story(report_type) ==
    LET story == << Paragraph("Agricultural Analysis Report"), Spacer,
                    Paragraph("Generated on"), Spacer >>
    IN  CASE report_type = "summary" -> _generate_summary_report(story)
          [] report_type = "land_analysis" -> _generate_land_analysis_report(story)
          [] report_type = "crop_analysis" -> _generate_crop_analysis_report(story)
          [] report_type = "irrigation_analysis" -> _generate_irrigation_analysis_report(story)
          [] report_type = "comprehensive" -> _generate_comprehensive_report(story)
          [] OTHER -> story \o << Paragraph("Invalid report type selected.") >>

download_analysis_report_response(report_type) ==
    IF ~REPORTLAB_AVAILABLE
    THEN HttpResp("download_analysis_report", [report_type |-> report_type], 302,
             [content_type |-> "", redirect |-> "analysis_reports",
              message |-> "PDF generation is not available. Please install ReportLab.",
              story |-> <<>>])
    ELSE HttpResp("download_analysis_report", [report_type |-> report_type], 200,
             [content_type |-> "application/pdf", redirect |-> "", message |-> "",
              story |-> report_story(report_type)])

\* views.py 664-674: the Field and Value columns of the CSV fallback, row by row
parcel_report_fields(parcel) ==
    LET Field == <<"Parcel ID", "Total Area", "Cultivated Area", "Soil Type",
                   "Land Holder", "Region">>
        Value == <<parcel.id, parcel.total_area, parcel.cultivated_area, parcel.soil_type,
                   HolderOf(parcel).id, Row(regions, HolderOf(parcel).region).name>>
    IN  [i \in 1..6 |-> <<Field[i], Value[i]>>]

\* a PDF table that prints the total area in the Cultivated Area row
parcel_data_TotalTwice(parcel) ==
    << <<"Parcel ID", parcel.id>>,
       <<"Total Area", parcel.total_area>>,
       <<"Cultivated Area", parcel.total_area>>,
       <<"Soil Type", parcel.soil_type>>,
       <<"Land Holder", parcel.land_holder>>,
       <<"Region", RegionNameOf(parcel)>> >>

\* views.py 701-708: the rows of the PDF table
parcel_data(parcel) ==
    << <<"Parcel ID", parcel.id>>,
       <<"Total Area", parcel.total_area>>,
       <<"Cultivated Area", parcel.cultivated_area>>,
       <<"Soil Type", parcel.soil_type>>,
       <<"Land Holder", parcel.land_holder>>,
       <<"Region", RegionNameOf(parcel)>> >>

\* get_object_or_404 is inside the try: "except Exception" catches its Http404 and the
\* handler answers with a flash message and a redirect to land_parcel_detail
download_parcel_report_response(pk) ==
    IF pk \notin Ids(land_parcels)
    THEN HttpResp("download_parcel_report", [pk |-> pk], 302,
             [content_type |-> "", redirect |-> "land_parcel_detail",
              message |-> "Error generating parcel report", fields |-> <<>>])
    ELSE HttpResp("download_parcel_report", [pk |-> pk], 200,
             [content_type |-> IF REPORTLAB_AVAILABLE THEN "application/pdf" ELSE "text/csv",
              redirect |-> "", message |-> "",
              fields |-> IF REPORTLAB_AVAILABLE THEN parcel_data(Row(land_parcels, pk))
                         ELSE parcel_report_fields(Row(land_parcels, pk))])

----------------------------------------------------------------------------
(* The request handlers as steps: each answers and leaves the store alone. *)

Reads(r) == resp' = r /\ UNCHANGED <<store, REPORTLAB_AVAILABLE, users>>

home == Reads(HttpResp("home", <<>>, 200, home_context))

dashboard == Reads(HttpResp("dashboard", <<>>, 200, dashboard_context))

land_parcel_list(region, soil_type) ==
    Reads(HttpResp("land_parcel_list", [region |-> region, soil_type |-> soil_type], 200,
                   land_parcel_list_context(region, soil_type)))

land_parcel_detail(pk) == Reads(land_parcel_detail_response(pk))

analysis_reports == Reads(HttpResp("analysis_reports", <<>>, 200, analysis_reports_context))

region_analysis(region_id, div0_raises) == Reads(region_analysis_response(region_id, div0_raises))

crop_analysis(crop_id, div0_raises) == Reads(crop_analysis_response(crop_id, div0_raises))

\* a statistics handler that discards the analyses of the parcels it has read
api_land_stats_Deleting(region, soil_type, time_period) ==
    /\ resp' = api_land_stats_response(region, soil_type, time_period)
    /\ land_analyses' = land_analyses
           \ Cascade_LandAnalysis_land_parcel(Ids(FilterParcels(NoParam, soil_type)))
    /\ UNCHANGED <<regions, land_holders, land_parcels, irrigation_systems, crops,
                   cropping_patterns, REPORTLAB_AVAILABLE, users>>

api_land_stats(region, soil_type, time_period) ==
    Reads(api_land_stats_response(region, soil_type, time_period))

api_analysis_data(analysis_type, region, time_period) ==
    Reads(api_analysis_data_response(analysis_type, region, time_period))

export_data(data_type, format) == Reads(export_data_response(data_type, format))

download_analysis_report(report_type) == Reads(download_analysis_report_response(report_type))

download_parcel_report(pk) == Reads(download_parcel_report_response(pk))

charts_call ==
    Reads(HttpResp("generate_land_analysis_charts", <<>>, 0, generate_land_analysis_charts))

utilization_call ==
    Reads(HttpResp("calculate_land_utilization_efficiency", <<>>, 0,
                   calculate_land_utilization_efficiency))

global_stats_call == Reads(HttpResp("global_stats", <<>>, 0, global_stats))

----------------------------------------------------------------------------
(* The inputs of the requests: every key a table holds and one it does not. *)

Keys(S) == Ids(S) \cup {NewId(S)}

RegionParams == {NoParam, TextParam} \cup {IntParam(i) : i \in Keys(regions)}

SoilParams == {""} \cup SOIL_TYPES

\* request.GET.get('time_period', '30d'): the parameter omitted ("") or a token
TIME_PERIODS == {"", "7d"}

Handlers ==
    \/ home
    \/ dashboard
    \/ \E region \in RegionParams, soil_type \in SoilParams : land_parcel_list(region, soil_type)
    \/ \E pk \in Keys(land_parcels) : land_parcel_detail(pk)
    \/ analysis_reports
    \/ \E region_id \in Keys(regions), div0 \in BOOLEAN : region_analysis(region_id, div0)
    \/ \E crop_id \in Keys(crops), div0 \in BOOLEAN : crop_analysis(crop_id, div0)
    \/ \E region \in RegionParams, soil_type \in SoilParams, time_period \in TIME_PERIODS :
           api_land_stats(region, soil_type, time_period)
    \/ \E analysis_type \in ANALYSIS_TYPES, region \in RegionParams,
          time_period \in TIME_PERIODS :
           api_analysis_data(analysis_type, region, time_period)
    \/ \E data_type \in DATA_TYPES \cup {"other"}, format \in {"", "csv", "excel"} :
           export_data(data_type, format)
    \/ \E report_type \in REPORT_TYPES \cup {"other"} : download_analysis_report(report_type)
    \/ \E pk \in Keys(land_parcels) : download_parcel_report(pk)
    \/ charts_call
    \/ utilization_call
    \/ global_stats_call

----------------------------------------------------------------------------
(* Spec: every handler, over the stores that a run of creations builds     *)
(* from the empty database.                                                *)

RowCount ==
    Cardinality(regions) + Cardinality(land_holders) + Cardinality(land_parcels)
    + Cardinality(irrigation_systems) + Cardinality(crops) + Cardinality(cropping_patterns)
    + Cardinality(land_analyses)

Init ==
    /\ regions = {}
    /\ land_holders = {}
    /\ land_parcels = {}
    /\ irrigation_systems = {}
    /\ crops = {}
    /\ cropping_patterns = {}
    /\ land_analyses = {}
    /\ REPORTLAB_AVAILABLE \in BOOLEAN
    /\ users = {}
    /\ resp = WriteResp("", "started", 0)

Creates ==
    \/ Region_save("North")
    \/ \E region \in Ids(regions) : LandHolder_save(region, "individual")
    \/ \E h \in Ids(land_holders) : LandParcel_save(h, 1000, 750, "loamy")
    \/ \E p \in Ids(land_parcels) : IrrigationSystem_save(p, "drip", 80, 500000)
    \/ Crop_save("wheat", "cereal")
    \/ \E p \in Ids(land_parcels), c \in Ids(crops), area_allocated \in {0, 1000} :
           CroppingPattern_save(p, c, 2024, "kharif", area_allocated, 500, 20000)
    \/ \E p \in Ids(land_parcels) : LandAnalysis_save(p, 70)

Next ==
    \/ RowCount < MaxRows /\ Creates
    \/ Handlers

Spec == Init /\ [][Next]_vars

----------------------------------------------------------------------------
(* SpecStore: the write paths of every table, deletions included.          *)

Deletes ==
    \/ \E pk \in Ids(regions) : Region_delete(pk)
    \/ \E pk \in Ids(land_holders) : LandHolder_delete(pk)
    \/ \E pk \in Ids(land_parcels) : LandParcel_delete(pk)
    \/ \E pk \in Ids(irrigation_systems) : IrrigationSystem_delete(pk)
    \/ \E pk \in Ids(crops) : Crop_delete(pk)
    \/ \E pk \in Ids(cropping_patterns) : CroppingPattern_delete(pk)
    \/ \E pk \in Ids(land_analyses) : LandAnalysis_delete(pk)

NextStore ==
    \/ RowCount < MaxStoreRows /\ Creates
    \/ Deletes

SpecStore == Init /\ [][NextStore]_vars

----------------------------------------------------------------------------
(* SpecParcels: regions, holders and parcels; the parcels' areas and soil  *)
(* types vary, and the statistics API reads them under its filters.        *)

\* total_area and cultivated_area as submitted: 10.00 and 7.50, 0 and 7.50,
\* 10.00 and 20.00, 25.00 and -1.00
ParcelAreas == {<<1000, 750>>, <<0, 750>>, <<1000, 2000>>, <<2500, -100>>}

ParcelCreates ==
    \/ \E name \in {"North", "South"} : Region_save(name)
    \/ \E region \in Ids(regions) : LandHolder_save(region, "individual")
    \/ \E h \in Ids(land_holders), a \in ParcelAreas, soil_type \in SOIL_TYPES :
           LandParcel_save(h, a[1], a[2], soil_type)
    \/ \E h \in Ids(land_holders), a \in ParcelAreas, soil_type \in SOIL_TYPES :
           LandParcelForm_save(h, a[1], a[2], soil_type)

ParcelChanges ==
    \/ \E pk \in Ids(land_parcels), a \in ParcelAreas : LandParcel_edit(pk, a[1], a[2])
    \/ \E pk \in Ids(land_parcels), a \in ParcelAreas : LandParcelForm_edit(pk, a[1], a[2])
    \/ \E pk \in Ids(land_parcels) : LandParcel_delete(pk)

NextParcels ==
    \/ RowCount < MaxParcelRows /\ ParcelCreates
    \/ ParcelChanges
    \/ \E region \in RegionParams, soil_type \in SoilParams : api_land_stats(region, soil_type, "")

SpecParcels == Init /\ [][NextParcels]_vars

----------------------------------------------------------------------------
(* SpecCrops: crops and cropping patterns on one region's parcels; the     *)
(* patterns' key fields and areas vary, and the charts read them.          *)

CropCreates ==
    \/ Region_save("North")
    \/ \E region \in Ids(regions) : LandHolder_save(region, "individual")
    \/ \E h \in Ids(land_holders) : LandParcel_save(h, 1000, 750, "loamy")
    \/ \E name \in {"wheat", "rice"} : Crop_save(name, "cereal")
    \/ \E p \in Ids(land_parcels), c \in Ids(crops), season \in SEASONS,
          area_allocated \in {0, 1000} :
           CroppingPattern_save(p, c, 2024, season, area_allocated, 500, 20000)

CropChanges ==
    \/ \E pk \in Ids(cropping_patterns), year \in {2023, 2024}, season \in SEASONS :
           CroppingPattern_edit(pk, year, season)
    \/ \E pk \in Ids(cropping_patterns) : CroppingPattern_delete(pk)

NextCrops ==
    \/ RowCount < MaxCropRows /\ CropCreates
    \/ CropChanges
    \/ charts_call
    \/ api_analysis_data("trends", NoParam, "")

SpecCrops == Init /\ [][NextCrops]_vars

----------------------------------------------------------------------------
(* SpecFaults: the handlers of views.py when a statement of theirs raises. *)
(* A failure is raised at one of three places of a handler: while it       *)
(* builds and runs its queries ("query"), while it turns the lazy grouped  *)
(* queries into lists ("materialise"), or while it renders the page, the   *)
(* document or the serialisation ("render").                               *)

FAULT_POINTS == {"query", "materialise", "render"}

VIEW_HANDLERS ==
    {"home", "dashboard", "land_parcel_list", "land_parcel_detail", "analysis_reports",
     "region_analysis", "crop_analysis", "api_land_stats", "api_analysis_data",
     "export_data", "download_analysis_report", "download_parcel_report"}

\* the places a handler has and can reach.  home and dashboard build their lists
\* after dates(), which raises first; land_parcel_list and land_parcel_detail hand
\* lazy querysets to the template; the documents are only built with ReportLab
fault_reachable(h, point) ==
    CASE h \in {"home", "dashboard"} ->
            point = "materialise" => ~QuerySet_dates_raises(CroppingPattern_year_field)
      [] h \in {"land_parcel_list", "land_parcel_detail"} -> point # "materialise"
      [] h = "download_analysis_report" -> REPORTLAB_AVAILABLE /\ point # "materialise"
      [] h = "download_parcel_report" -> point # "materialise"
      [] OTHER -> TRUE

\* TRUE when the place lies inside a try whose except clause catches the failure
try_covers(h, point) ==
    CASE h = "home" -> point \in {"query", "materialise"}
      [] h \in {"dashboard", "analysis_reports", "region_analysis", "crop_analysis"} ->
            point = "query"
      [] h = "land_parcel_list" -> point = "query"
      [] h = "land_parcel_detail" -> FALSE
      [] OTHER -> TRUE

\* what the except clause of the handler answers
except_response(h) ==
    CASE h \in {"api_land_stats", "api_analysis_data", "export_data"} ->
            [status |-> 500, kind |-> "json_error"]
      [] h \in {"download_analysis_report", "download_parcel_report"} ->
            [status |-> 302, kind |-> "flash_redirect"]
      [] OTHER -> [status |-> 200, kind |-> "default_context"]

\* the answer to a request whose handler fails at the place point; a failure no
\* except clause catches leaves the handler and the framework answers 500
failing_response(h, pk, point) ==
    IF try_covers(h, point)
    THEN HttpResp(h, [pk |-> pk, fault |-> point], except_response(h).status,
                  [kind |-> except_response(h).kind])
    ELSE HttpResp(h, [pk |-> pk, fault |-> point], 500, [kind |-> "unhandled"])

\* the keys of the record a handler looks up before it computes (0: it looks up none)
LookupKeys(h) ==
    CASE h = "region_analysis" -> Ids(regions)
      [] h = "crop_analysis" -> Ids(crops)
      [] h \in {"land_parcel_detail", "download_parcel_report"} -> Ids(land_parcels)
      [] OTHER -> {0}

failing_request(h, pk, point) ==
    /\ fault_reachable(h, point)
    /\ pk \in LookupKeys(h)
    /\ Reads(failing_response(h, pk, point))

NextFaults ==
    \/ RowCount < MaxFaultRows /\ Creates
    \/ \E h \in VIEW_HANDLERS, point \in FAULT_POINTS :
           \E pk \in LookupKeys(h) : failing_request(h, pk, point)

SpecFaults == Init /\ [][NextFaults]_vars

----------------------------------------------------------------------------
(* SpecLimit: the queries that slice their groups with [:10], over stores   *)
(* that hold more crops than the slice keeps.                               *)

MaxLimitRows == 25

\* the names of the crops of the store, in the order the rows are created
CROP_NAMES == << "wheat", "rice", "maize", "barley", "millet", "sorghum",
                 "gram", "lentil", "pea", "soybean", "cotton" >>

TRUNCATING_QUERIES == {"generate_land_analysis_charts", "download_analysis_report",
                       "region_analysis"}

\* utils.py 51-54 groups every pattern, views.py 546-550 too, views.py 751-758 the
\* patterns of the region's parcels
truncated_groups(site, region_id) ==
    IF site = "region_analysis"
    THEN crop_groups_of({c \in cropping_patterns :
                            c.land_parcel \in Ids(ParcelsInRegion(region_id))})
    ELSE crop_groups_of(cropping_patterns)

\* utils.py 54: no order_by; views.py 550: order_by('-total_revenue'); views.py 758:
\* order_by('-total_area')
truncated_choices(site, region_id) ==
    LimitChoices(truncated_groups(site, region_id),
                 CASE site = "download_analysis_report" -> "total_revenue"
                   [] site = "region_analysis" -> "total_area"
                   [] OTHER -> "")

\* one run of a truncating query inside its handler: rows is the result the database
\* gives for the slice, and the handler shows exactly these crops
truncated_query(site, region_id, rows) ==
    /\ site = "download_analysis_report" => REPORTLAB_AVAILABLE
    /\ region_id \in Ids(regions)
    /\ rows \in truncated_choices(site, region_id)
    /\ Reads(HttpResp(site, [region_id |-> region_id, report_type |-> "crop_analysis"],
                      200, [crops |-> {g.crop__name : g \in rows}]))

LimitCreates ==
    \/ regions = {} /\ Region_save("North")
    \/ land_holders = {} /\ \E region \in Ids(regions) : LandHolder_save(region, "individual")
    \/ land_parcels = {} /\ \E h \in Ids(land_holders) : LandParcel_save(h, 1000, 750, "loamy")
    \/ /\ Cardinality(crops) < Len(CROP_NAMES)
       /\ Crop_save(CROP_NAMES[Cardinality(crops) + 1], "cereal")
    \/ \E p \in Ids(land_parcels), c \in Ids(crops) :
         \E revenue \in IF c = 1 THEN {20000, 30000} ELSE {20000} :
           /\ c = Cardinality(cropping_patterns) + 1
           /\ CroppingPattern_save(p, c, 2024, "kharif", 1000, 500, revenue)

NextLimit ==
    \/ RowCount < MaxLimitRows /\ LimitCreates
    \/ \E site \in TRUNCATING_QUERIES, region_id \in Ids(regions) :
           \E rows \in truncated_choices(site, region_id) :
               truncated_query(site, region_id, rows)

SpecLimit == Init /\ [][NextLimit]_vars

----------------------------------------------------------------------------
(* SpecForms: the forms of forms.py, submitted over a store that holds one  *)
(* region, holder, parcel and crop or more, and the requests of visitors    *)
(* who are not logged in.                                                   *)

MaxFormRows == 5

\* the years submitted to CroppingPatternForm
FORM_YEARS == {-1, 0, 1999, 2000, 2030, 2031}

\* forms.py 175-179: TRUE when clean_year returns the year, FALSE when it raises
\* ValidationError; 'if year and (...)' skips the range test for a falsy year
CroppingPatternForm_clean_year(year) == ~(Truthy(year) /\ (year < 2000 \/ year > 2030))

\* CroppingPatternForm(data).is_valid() and form.save(): clean_year, then the model's
\* validate_unique, then the insert
CroppingPatternForm_save(land_parcel, crop, year, season) ==
    /\ land_parcel \in Ids(land_parcels)
    /\ crop \in Ids(crops)
    /\ LET row == CroppingPatternRow(NewId(cropping_patterns), land_parcel, crop,
                                     year, season, 1000, 500, 20000)
       IN  IF CroppingPatternForm_clean_year(year) /\ unique_together(row)
           THEN /\ cropping_patterns' = cropping_patterns \cup {row}
                /\ resp' = WriteResp("CroppingPatternForm", "saved", 1)
           ELSE /\ cropping_patterns' = cropping_patterns
                /\ resp' = WriteResp("CroppingPatternForm", "rejected", 0)
    /\ UNCHANGED <<regions, land_holders, land_parcels, irrigation_systems, crops,
                   land_analyses, REPORTLAB_AVAILABLE, users>>

\* forms.py 54-58: TRUE when clean_email returns the email, FALSE when it raises
CustomUserCreationForm_clean_email(email) == \A u \in users : u.email # email

\* views.py 92-117, POST: the form is valid when the username is free (User.username is
\* unique) and clean_email passes; the user is saved, logged in and sent to the dashboard
signup(username, email) ==
    /\ IF (\A u \in users : u.username # username) /\ CustomUserCreationForm_clean_email(email)
       THEN /\ users' = users \cup {[id |-> NewId(users), username |-> username,
                                     email |-> email]}
            /\ resp' = HttpResp("signup", [username |-> username, email |-> email], 302,
                                [redirect |-> "dashboard"])
       ELSE /\ users' = users
            /\ resp' = HttpResp("signup", [username |-> username, email |-> email], 200,
                                [redirect |-> ""])
    /\ UNCHANGED <<store, REPORTLAB_AVAILABLE>>

\* views.py 119-135, POST by the logged-in user pk: UserProfileForm (forms.py 69-77) is a
\* ModelForm over first_name, last_name and email with no clean method, and User.email
\* carries no unique constraint, so the form is valid and the email is stored
profile(pk, email) ==
    /\ pk \in Ids(users)
    /\ users' = {IF u.id = pk THEN [u EXCEPT !.email = email] ELSE u : u \in users}
    /\ resp' = HttpResp("profile", [pk |-> pk, email |-> email], 302, [redirect |-> "profile"])
    /\ UNCHANGED <<store, REPORTLAB_AVAILABLE>>

\* the views decorated with @login_required (views.py 119-1006)
LOGIN_REQUIRED == (VIEW_HANDLERS \ {"home"}) \cup {"profile"}

\* the views routed with no decorator: home, contact (land_analysis/urls.py), login and
\* signup (agrisite/urls.py)
PUBLIC_PAGES == {"home", "contact", "login", "signup"}

\* a GET with no session: login_required redirects to the login page before the view
\* runs; a public page is rendered with the view's context and, as every template is,
\* with the dictionary of the global_stats context processor
anonymous_request(view) ==
    Reads(IF view \in LOGIN_REQUIRED
          THEN HttpResp(view, [authenticated |-> FALSE], 302, [redirect |-> "login"])
          ELSE HttpResp(view, [authenticated |-> FALSE], 200,
                   [context |-> IF view = "home" THEN home_context ELSE [form |-> view],
                    global_stats |-> global_stats]))

FormCreates ==
    \/ Region_save("North")
    \/ \E region \in Ids(regions) : LandHolder_save(region, "individual")
    \/ \E h \in Ids(land_holders) : LandParcel_save(h, 1000, 750, "loamy")
    \/ Crop_save("wheat", "cereal")

NextForms ==
    \/ RowCount < MaxFormRows /\ FormCreates
    \/ /\ RowCount < MaxFormRows
       /\ \E p \in Ids(land_parcels), c \in Ids(crops), year \in FORM_YEARS,
             season \in SEASONS : CroppingPatternForm_save(p, c, year, season)
    \/ \E username \in {"ann", "bob"}, email \in {"ann@agri.org", "bob@agri.org"} :
           signup(username, email)
    \/ \E pk \in Ids(users), email \in {"ann@agri.org", "bob@agri.org"} : profile(pk, email)
    \/ \E view \in LOGIN_REQUIRED \cup PUBLIC_PAGES : anonymous_request(view)

SpecForms == Init /\ [][NextForms]_vars

----------------------------------------------------------------------------
(* Properties.                                                             *)

StoreEmpty ==
    /\ regions = {} /\ land_holders = {} /\ land_parcels = {} /\ irrigation_systems = {}
    /\ crops = {} /\ cropping_patterns = {} /\ land_analyses = {}

\* C1: every stored LandParcel satisfies 0 <= cultivated_area <= total_area, whatever
\* write path (LandParcelForm, the admin console, a direct save) stored it
C1_CultivatedWithinTotal ==
    \A p \in land_parcels : 0 <= p.cultivated_area /\ p.cultivated_area <= p.total_area

\* C2: no two stored CroppingPattern rows share (land_parcel, crop, year, season),
\* and an insert or an edit that is rejected leaves the store as it was
C2_UniqueTogether ==
    /\ [](\A a \in cropping_patterns, b \in cropping_patterns :
             a.id # b.id => ~SameTuple(a, b))
    /\ [][resp'.handler = "CroppingPattern" /\ resp'.body = "rejected"
             => UNCHANGED store]_vars

\* a second row with the tuple of a stored row has been offered and rejected
C2_DuplicateRejected ==
    /\ resp.handler = "CroppingPattern"
    /\ resp.body = "rejected"
    /\ Cardinality(cropping_patterns) >= 2

\* the rows of the dependent tables that reference a key no table holds
Dangling ==
    {h \in land_holders : h.region \notin Ids(regions)}
    \cup {p \in land_parcels : p.land_holder \notin Ids(land_holders)}
    \cup {i \in irrigation_systems : i.land_parcel \notin Ids(land_parcels)}
    \cup {c \in cropping_patterns :
             c.land_parcel \notin Ids(land_parcels) \/ c.crop \notin Ids(crops)}
    \cup {a \in land_analyses : a.land_parcel \notin Ids(land_parcels)}

\* C3: deleting a LandHolder deletes its parcels, deleting a parcel deletes its
\* irrigation system, cropping patterns and analyses, and so after any sequence of
\* creations and deletions every row references rows that still exist
C3_CascadeKeepsReferences ==
    /\ [](Dangling = {})
    /\ [][/\ \A h \in land_holders \ land_holders' :
                 \A p \in land_parcels : p.land_holder = h.id => p \notin land_parcels'
          /\ \A p \in land_parcels \ land_parcels' :
                 /\ \A i \in irrigation_systems :
                        i.land_parcel = p.id => i \notin irrigation_systems'
                 /\ \A c \in cropping_patterns :
                        c.land_parcel = p.id => c \notin cropping_patterns'
                 /\ \A a \in land_analyses :
                        a.land_parcel = p.id => a \notin land_analyses']_vars

\* a LandHolder has been deleted together with a parcel and a row that hung on it
C3_HolderDeletedWithDependents ==
    /\ resp.handler = "LandHolder"
    /\ resp.body = "deleted"
    /\ resp.args.rows >= 3

AggregationHandlers ==
    {"home", "dashboard", "land_parcel_list", "land_parcel_detail", "analysis_reports",
     "region_analysis", "crop_analysis", "api_land_stats", "api_analysis_data",
     "export_data", "download_analysis_report", "download_parcel_report",
     "generate_land_analysis_charts", "calculate_land_utilization_efficiency",
     "global_stats"}

\* C4: a step of an aggregation, report, export or download handler leaves every
\* table unchanged, whether the handler succeeds or answers an error
C4_HandlersReadOnly ==
    [][resp'.handler \in AggregationHandlers => UNCHANGED store]_vars

\* a handler has answered an error over a store that holds rows of every table
C4_ErrorAnswerOverFullStore ==
    /\ resp.handler \in AggregationHandlers
    /\ resp.status \in {302, 400, 404, 500}
    /\ regions # {} /\ land_holders # {} /\ land_parcels # {} /\ crops # {}
    /\ cropping_patterns # {}

\* C5: over the empty store dashboard, analysis_reports, api_land_stats,
\* api_analysis_data, generate_comprehensive_report, generate_land_analysis_charts,
\* calculate_land_utilization_efficiency and global_stats answer zero counts, zero
\* sums and empty sequences, and none of them fails (the region parameter of
\* api_land_stats being absent or a number)
C5_EmptyStoreDefaults ==
    StoreEmpty =>
        /\ resp.handler = "dashboard" =>
               /\ resp.status = 200
               /\ resp.body.stats = [total_land_holders |-> 0, total_parcels |-> 0,
                                     total_cultivated_area |-> 0,
                                     avg_productivity |-> ZERO_AVG]
               /\ resp.body.region_data = {} /\ resp.body.irrigation_data = {}
               /\ resp.body.crop_data = {} /\ resp.body.charts = {}
        /\ resp.handler = "analysis_reports" =>
               /\ resp.status = 200
               /\ resp.body.land_holding_analysis = {}
               /\ resp.body.irrigation_efficiency = {}
               /\ resp.body.crop_productivity = {}
               /\ resp.body.production_trend = <<>>
               /\ resp.body.total_land_area = 0
               /\ resp.body.total_cultivated_area = 0
        /\ resp.handler = "api_land_stats" /\ ~BadRegionParam(resp.args.region) =>
               /\ resp.status = 200
               /\ resp.body.status = "success"
               /\ resp.body.soil_distribution = {}
               /\ resp.body.irrigation_distribution = {}
               /\ resp.body.crop_distribution = {}
               /\ resp.body.region_stats = {}
        /\ resp.handler = "api_analysis_data" =>
               /\ resp.status = 200
               /\ resp.body.status = "success"
               /\ resp.body.land_analysis = {} /\ resp.body.irrigation_analysis = {}
               /\ resp.body.crop_analysis = {} /\ resp.body.production_trends = <<>>
        /\ resp.handler = "export_data" /\ resp.args.data_type = "comprehensive_report" =>
               /\ resp.status = 200
               /\ resp.body.report.summary =
                      [total_land_holders |-> 0, total_parcels |-> 0,
                       total_cultivated_area |-> 0, total_revenue |-> 0]
               /\ resp.body.report.land_analysis = {}
               /\ resp.body.report.crop_analysis = {}
               /\ resp.body.report.irrigation_analysis = {}
        /\ resp.handler = "generate_land_analysis_charts" =>
               resp.body = {} /\ ~charts_raise
        /\ resp.handler = "calculate_land_utilization_efficiency" =>
               /\ resp.body.total_land = 0 /\ resp.body.cultivated_land = 0
               /\ resp.body.utilization_rate.num = 0 /\ resp.body.uncultivated_land = 0
        /\ resp.handler = "global_stats" =>
               resp.body = [total_land_holders |-> 0, total_parcels |-> 0,
                            total_cultivated_area |-> 0, total_crops_planted |-> 0]

\* the comprehensive report has been generated from the empty store
C5_ReportOverEmptyStore ==
    /\ StoreEmpty
    /\ resp.handler = "export_data"
    /\ resp.args.data_type = "comprehensive_report"
    /\ resp.status = 200

\* the sum of the total_area column of the soil groups D
GroupedArea(D) ==
    SumField({[soil_type |-> g.soil_type, v |-> g.total_area.v] : g \in D}, "v")

\* C6: the soil distribution of a scope has exactly one group per soil type that
\* occurs in the scope, its counts sum to the number of parcels in the scope and its
\* total areas to the scope's total area; over one parcel of 10.00 loamy it is the
\* single group {loamy, 1, 10.00}
C6_SoilDistributionSums ==
    resp.handler = "api_land_stats" /\ resp.status = 200 =>
        LET P == {p \in land_parcels :
                     /\ resp.args.region.given =>
                            Row(land_holders, p.land_holder).region = resp.args.region.v
                     /\ resp.args.soil_type # "" => p.soil_type = resp.args.soil_type}
            D == resp.body.soil_distribution
        IN  /\ {g.soil_type : g \in D} = {p.soil_type : p \in P}
            /\ Cardinality(D) = Cardinality({p.soil_type : p \in P})
            /\ SumField(D, "count") = Cardinality(P)
            /\ \A g \in D : ~g.total_area.null
            /\ GroupedArea(D) = SumField(P, "total_area")
            /\ (\E p \in land_parcels :
                    /\ land_parcels = {p}
                    /\ p.total_area = 1000 /\ p.soil_type = "loamy"
                    /\ P = {p})
               => D = {[soil_type |-> "loamy", count |-> 1, total_area |-> Dec(1000)]}

\* the soil distribution has been read over two parcels of different soil types
\* whose total and cultivated areas differ
C6_TwoSoilGroups ==
    /\ resp.handler = "api_land_stats"
    /\ resp.status = 200
    /\ ~resp.args.region.given /\ resp.args.soil_type = ""
    /\ Cardinality(resp.body.soil_distribution) = 2
    /\ \E p \in land_parcels : p.total_area = 1000 /\ p.cultivated_area = 750

\* C7: the crop chart's division total_yield / total_area is performed only for the
\* groups whose total_area is above zero, also when another group's is
C7_DivisionOnlyAboveZero ==
    \A g \in chart_crop_divided : g.total_area.v > 0

\* C8: region_analysis of a region that exists and has no parcel answers
\* total_parcels = 0, total_area = 0, avg_parcel_size = 0 and empty crop, soil and
\* irrigation breakdowns, without an error
C8_EmptyRegionZeros ==
    (/\ resp.handler = "region_analysis"
     /\ resp.args.region_id \in Ids(regions)
     /\ ParcelsInRegion(resp.args.region_id) = {})
    => /\ resp.status = 200
       /\ ~resp.body.failed
       /\ resp.body.region_stats.total_parcels = 0
       /\ resp.body.region_stats.total_area = Dec(0)
       /\ resp.body.region_stats.avg_parcel_size = ZERO_AVG
       /\ resp.body.top_crops = {}
       /\ resp.body.soil_distribution = {}
       /\ resp.body.irrigation_systems = {}

\* the api_land_stats request names, as a number, a region that does not exist
UnknownRegionFilter ==
    /\ resp.handler = "api_land_stats"
    /\ resp.args.region.given /\ resp.args.region.numeric
    /\ resp.args.region.v \notin Ids(regions)

\* the region_analysis request names a region that does not exist
UnknownRegionPage ==
    /\ resp.handler = "region_analysis"
    /\ resp.args.region_id \notin Ids(regions)

C10_UnknownIdIs404 ==
    /\ UnknownRegionPage => resp.status = 404
    /\ resp.handler = "crop_analysis" /\ resp.args.crop_id \notin Ids(crops)
           => resp.status = 404
    /\ resp.handler = "land_parcel_detail" /\ resp.args.pk \notin Ids(land_parcels)
           => resp.status = 404
    /\ resp.handler = "download_parcel_report" /\ resp.args.pk \notin Ids(land_parcels)
           => resp.status = 404

\* C11: a failure raised while a handler computes or materialises its aggregation
\* results or renders its artifact is caught inside the handler and answered with
\* the handler's generic failure response; none leaves the handler
C11_FailuresCaught ==
    resp.handler \in VIEW_HANDLERS /\ resp.status # 0 => resp.body.kind # "unhandled"

\* C12: the CSV export of land_parcels carries the header row parcel_id, total_area,
\* cultivated_area, soil_type, land_holder__name, land_holder__region__name in
\* every store state, and with zero parcels it carries that header and no data row
C12_CsvHeaderAlways ==
    (/\ resp.handler = "export_data"
     /\ resp.args.data_type = "land_parcels"
     /\ resp.args.format = "csv")
    => /\ resp.status = 200
       /\ resp.body.content_type = "text/csv"
       /\ resp.body.columns = <<"parcel_id", "total_area", "cultivated_area", "soil_type",
                                "land_holder__name", "land_holder__region__name">>
       /\ land_parcels = {} => resp.body.rows = {}

SECTION_HEADINGS ==
    {"Executive Summary", "Land Holding Analysis", "Crop Productivity Analysis",
     "Irrigation System Analysis", "Recommendations"}

\* the positions of the story whose paragraph reads text
Positions(story, text) ==
    {i \in 1..Len(story) : story[i].kind = "Paragraph" /\ story[i].text = text}

SectionsOf(report_type) ==
    SubSeq(report_story(report_type), 5, Len(report_story(report_type)))

\* C14: in every store state the comprehensive report's sections are the summary
\* report's, then the land-analysis report's, the crop-analysis report's and the
\* irrigation-analysis report's, each as the report of that type gives them on the
\* same store, and then the heading Recommendations and the five fixed statements
C14_ComprehensiveIsConcatenation ==
    (/\ resp.handler = "download_analysis_report"
     /\ resp.args.report_type = "comprehensive"
     /\ resp.status = 200)
    => LET story == resp.body.story
           n == Len(story)
       IN  /\ n >= 10
           /\ SubSeq(story, 5, n - 6) =
                  SectionsOf("summary") \o SectionsOf("land_analysis")
                  \o SectionsOf("crop_analysis") \o SectionsOf("irrigation_analysis")
           /\ story[n - 5] = Paragraph("Recommendations")
           /\ SubSeq(story, n - 4, n) =
                  << Paragraph("Consider expanding high-revenue crop cultivation"),
                     Paragraph("Optimize irrigation systems for better water efficiency"),
                     Paragraph("Implement soil health improvement programs"),
                     Paragraph("Explore diversification of crop patterns"),
                     Paragraph("Invest in modern agricultural technologies") >>

\* the comprehensive report has been downloaded over a store whose land and crop
\* sections hold tables
C14_ComprehensiveOverData ==
    /\ resp.handler = "download_analysis_report"
    /\ resp.args.report_type = "comprehensive"
    /\ resp.status = 200
    /\ land_parcels # {} /\ cropping_patterns # {}

TABULAR_CONTENT_TYPES == {"text/csv", "application/vnd.ms-excel", "application/json"}

\* C15: without document generation every document download (download_analysis_report
\* of any report type, download_parcel_report of an existing parcel) still answers
\* the requested data as a tabular export, with a message that tells the user of
\* the substitution
C15_FallbackToTabular ==
    ~REPORTLAB_AVAILABLE =>
        /\ resp.handler = "download_analysis_report" =>
               /\ resp.status = 200
               /\ resp.body.content_type \in TABULAR_CONTENT_TYPES
               /\ resp.body.message # ""
        /\ resp.handler = "download_parcel_report" /\ resp.args.pk \in Ids(land_parcels) =>
               /\ resp.status = 200
               /\ resp.body.content_type \in TABULAR_CONTENT_TYPES
               /\ resp.body.message # ""

\* C16: for an existing parcel download_parcel_report answers a CSV attachment
\* without document generation and a PDF attachment with it; both hold the six
\* fields Parcel ID, Total Area, Cultivated Area, Soil Type, Land Holder and Region
\* with the parcel's values, the same on the two paths
C16_ParcelReportSameFields ==
    (/\ resp.handler = "download_parcel_report"
     /\ resp.args.pk \in Ids(land_parcels))
    => LET p == Row(land_parcels, resp.args.pk)
           h == Row(land_holders, p.land_holder)
       IN  /\ resp.status = 200
           /\ resp.body.content_type =
                  IF REPORTLAB_AVAILABLE THEN "application/pdf" ELSE "text/csv"
           /\ resp.body.fields =
                  << <<"Parcel ID", p.id>>, <<"Total Area", p.total_area>>,
                     <<"Cultivated Area", p.cultivated_area>>, <<"Soil Type", p.soil_type>>,
                     <<"Land Holder", h.id>>, <<"Region", Row(regions, h.region).name>> >>
           /\ parcel_data(p) = parcel_report_fields(p)

\* the report of an existing parcel has been downloaded as CSV
C16_ParcelReportAsCsv ==
    /\ resp.handler = "download_parcel_report"
    /\ resp.args.pk \in Ids(land_parcels)
    /\ resp.body.content_type = "text/csv"

\* C17: every answer of api_land_stats has one of two shapes: HTTP 200 with exactly
\* the keys soil_distribution, irrigation_distribution, crop_distribution,
\* region_stats and status = "success", or HTTP 500 with status = "error" and a
\* message; a region parameter that is no integer gets the second shape
C17_ApiShapes ==
    resp.handler = "api_land_stats" =>
        /\ \/ /\ resp.status = 200
              /\ DOMAIN resp.body = {"soil_distribution", "irrigation_distribution",
                                     "crop_distribution", "region_stats", "status"}
              /\ resp.body.status = "success"
           \/ /\ resp.status = 500
              /\ {"status", "message"} \subseteq DOMAIN resp.body
              /\ resp.body.status = "error"
              /\ resp.body.message # ""
        /\ (resp.args.region.given /\ ~resp.args.region.numeric) => resp.status = 500

\* api_land_stats has been called with a region parameter that is no integer, over
\* a store that holds parcels
C17_TextRegion ==
    /\ resp.handler = "api_land_stats"
    /\ resp.args.region.given /\ ~resp.args.region.numeric
    /\ land_parcels # {}

\* C18: for each of the data types land_parcels, cropping_patterns,
\* irrigation_systems and comprehensive_report the export is serialised as the
\* format parameter says: csv as CSV, excel as a spreadsheet, no format as JSON
C18_FormatSelectsSerialization ==
    (/\ resp.handler = "export_data"
     /\ resp.args.data_type \in {"land_parcels", "cropping_patterns", "irrigation_systems",
                                 "comprehensive_report"})
    => /\ resp.status = 200
       /\ resp.args.format = "csv" => resp.body.content_type = "text/csv"
       /\ resp.args.format = "excel" => resp.body.content_type = "application/vnd.ms-excel"
       /\ resp.args.format = "" => resp.body.content_type = "application/json"

\* C19: an aggregation that keeps at most 10 groups returns the same groups on every run
\* over the same store: the crops a truncating query has shown are the only crops it can
\* show in this state of the store.
C19_TruncationDeterministic ==
    resp.handler \in TRUNCATING_QUERIES /\ resp.status = 200 =>
        \A rows \in truncated_choices(resp.handler, resp.args.region_id) :
            resp.body.crops = {g.crop__name : g \in rows}

\* C20: with a region and/or soil_type filter, every grouping of api_land_stats
\* (soil_distribution, irrigation_distribution, crop_distribution, region_stats)
\* aggregates only the parcels inside both filters, and api_analysis_data with a region
\* parameter groups only the rows of that region.
C20_GroupingsInsideFilter ==
    /\ resp.handler = "api_land_stats" /\ resp.status = 200 =>
           LET P == FilterParcels(resp.args.region, resp.args.soil_type)
           IN  /\ resp.body.soil_distribution = soil_distribution_of(P)
               /\ resp.body.irrigation_distribution = irrigation_distribution_of(
                      {i \in irrigation_systems : i.land_parcel \in Ids(P)})
               /\ resp.body.crop_distribution = crop_distribution_of(
                      {c \in cropping_patterns : c.land_parcel \in Ids(P)})
               /\ resp.body.region_stats = region_stats_of(P)
    /\ resp.handler = "api_analysis_data" /\ resp.status = 200
           /\ resp.args.region.given /\ resp.args.region.numeric =>
           LET P == FilterParcels(resp.args.region, "")
               H == {h \in land_holders : h.region = resp.args.region.v}
               I == {i \in irrigation_systems : i.land_parcel \in Ids(P)}
               C == {c \in cropping_patterns : c.land_parcel \in Ids(P)}
           IN  /\ resp.args.type \in {"comprehensive", "land"} =>
                      resp.body.land_analysis = land_holding_of(H)
               /\ resp.args.type \in {"comprehensive", "irrigation"} =>
                      resp.body.irrigation_analysis = irrigation_distribution_of(I)
               /\ resp.args.type \in {"comprehensive", "crops"} =>
                      resp.body.crop_analysis = crop_groups_of(C)
               /\ resp.args.type \in {"comprehensive", "trends"} =>
                      resp.body.production_trends = order_by(year_groups_of(C), "year")

\* C20, the statistics API alone
C20_LandStatsInsideFilter ==
    resp.handler = "api_land_stats" /\ resp.status = 200 =>
        resp.body.region_stats =
            region_stats_of(FilterParcels(resp.args.region, resp.args.soil_type))

\* C20, the analysis API alone
C20_AnalysisDataInsideRegion ==
    resp.handler = "api_analysis_data" /\ resp.status = 200
        /\ resp.args.region.given /\ resp.args.region.numeric
        /\ resp.args.type = "land" =>
        resp.body.land_analysis =
            land_holding_of({h \in land_holders : h.region = resp.args.region.v})

\* the days since the rows of the store were created, as of the request
ROW_AGE_DAYS == 10

\* the length of a period token
PeriodDays(time_period) == CASE time_period = "7d" -> 7 [] OTHER -> 30

\* the rows of S that fall inside the period
InPeriod(S, time_period) == IF ROW_AGE_DAYS <= PeriodDays(time_period) THEN S ELSE {}

\* C21: api_land_stats and api_analysis_data aggregate only the records inside the
\* time_period of the request ('30d' when it is omitted), so a request for '7d' over rows
\* that are ten days old returns empty groupings.
C21_TimePeriodApplied ==
    /\ resp.handler = "api_land_stats" /\ resp.status = 200 =>
           resp.body.soil_distribution =
               soil_distribution_of(InPeriod(
                   FilterParcels(resp.args.region, resp.args.soil_type),
                   resp.args.time_period))
    /\ resp.handler = "api_analysis_data" /\ resp.status = 200
           /\ ~resp.args.region.given /\ resp.args.type \in {"comprehensive", "crops"} =>
           resp.body.crop_analysis =
               crop_groups_of(InPeriod(cropping_patterns, resp.args.time_period))

\* C21, the statistics API alone
C21_LandStatsPeriod ==
    resp.handler = "api_land_stats" /\ resp.status = 200 =>
        resp.body.soil_distribution =
            soil_distribution_of(InPeriod(
                FilterParcels(resp.args.region, resp.args.soil_type),
                resp.args.time_period))

\* C21, the analysis API alone
C21_AnalysisDataPeriod ==
    resp.handler = "api_analysis_data" /\ resp.status = 200
        /\ ~resp.args.region.given /\ resp.args.type = "crops" =>
        resp.body.crop_analysis =
            crop_groups_of(InPeriod(cropping_patterns, resp.args.time_period))

\* C22: the production trend has exactly one row per year that occurs among the
\* cropping patterns, in strictly ascending year order, and each row's total yield and
\* total revenue are the sums of yield_amount and revenue over the patterns of its year.
C22_ProductionTrend ==
    resp.handler = "api_analysis_data" /\ resp.status = 200 /\ resp.args.type = "trends" =>
        LET trend == resp.body.production_trends
            years == {c.year : c \in cropping_patterns}
        IN  /\ Len(trend) = Cardinality(years)
            /\ {trend[i].year : i \in 1..Len(trend)} = years
            /\ \A i \in 1..(Len(trend) - 1) : trend[i].year < trend[i + 1].year
            /\ \A i \in 1..Len(trend) :
                   LET C == {c \in cropping_patterns : c.year = trend[i].year}
                   IN  /\ trend[i].total_yield = Dec(SumField(C, "yield_amount"))
                       /\ trend[i].total_revenue = Dec(SumField(C, "revenue"))

\* a trend over two years, one of them with two patterns
C22_TrendOverTwoYears ==
    /\ resp.handler = "api_analysis_data" /\ resp.status = 200 /\ resp.args.type = "trends"
    /\ Len(resp.body.production_trends) = 2
    /\ \E y \in {c.year : c \in cropping_patterns} :
           Cardinality({c \in cropping_patterns : c.year = y}) = 2

\* C23: in the land-holding analysis every ownership type's count is the number of
\* parcels whose holder has that type and its total is the sum of total_area over those
\* parcels, also when a holder has no parcel or several.
C23_OwnershipCountsParcels ==
    resp.handler = "api_analysis_data" /\ resp.status = 200
        /\ resp.args.type \in {"comprehensive", "land"} =>
        \A g \in resp.body.land_analysis :
            LET P == {p \in land_parcels : HolderOf(p).ownership_type = g.ownership_type}
            IN  /\ g.count = Cardinality(P)
                /\ OrZero(g.total_land) = SumField(P, "total_area")

\* C24: when a crop has patterns but their average area_allocated is zero, crop_analysis
\* does not fail: the ratios are undefined or zero and the other statistics and the
\* breakdowns of the page keep their values.
C24_ZeroDenominatorKeepsPage ==
    resp.handler = "crop_analysis" /\ resp.status = 200 =>
        LET C == {c \in cropping_patterns : c.crop = resp.args.crop_id}
        IN  C # {} /\ SumField(C, "area_allocated") = 0 =>
                /\ ~resp.body.failed
                /\ resp.body.crop_stats.avg_yield_per_hectare.null
                /\ resp.body.crop_stats.total_yield = SqlSum(C, "yield_amount")
                /\ resp.body.crop_stats.total_revenue = SqlSum(C, "revenue")
                /\ resp.body.seasonal_performance = seasonal_performance_of(C)
                /\ resp.body.regional_distribution = regional_distribution_of(C)

\* C25: generate_land_analysis_charts omits the key of a chart exactly when the grouped
\* result of that chart is empty; every chart with a non-empty grouped result is in the
\* returned mapping.
C25_EmptyChartOmittedAlone ==
    resp.handler = "generate_land_analysis_charts" =>
        /\ "soil_distribution" \in resp.body <=> land_parcels # {}
        /\ "irrigation_distribution" \in resp.body <=> irrigation_systems # {}
        /\ "crop_productivity" \in resp.body <=> cropping_patterns # {}
        /\ "production_trend" \in resp.body <=> cropping_patterns # {}
        /\ "ownership_distribution" \in resp.body <=> land_parcels # {}

\* C25, for the charts that have no condition besides a non-empty result: with no
\* irrigation system stored, the soil, trend and ownership charts are still produced
C25_OtherChartsProduced ==
    resp.handler = "generate_land_analysis_charts" /\ irrigation_systems = {} =>
        /\ land_parcels # {} => {"soil_distribution", "ownership_distribution"} \subseteq resp.body
        /\ cropping_patterns # {} => "production_trend" \in resp.body

\* C26: every cropping pattern that CroppingPatternForm has accepted has a year between
\* 2000 and 2030; the form rejects every other year, 0 and negative years included.
C26_FormYearInRange ==
    \A c \in cropping_patterns : 2000 <= c.year /\ c.year <= 2030

\* C27: when producing one of the charts raises, generate_land_analysis_charts returns
\* the empty mapping: the charts built earlier in the call are discarded, and the caller
\* gets a mapping, not the exception.
C27_ChartsAllOrNothing ==
    resp.handler = "generate_land_analysis_charts" /\ charts_raise =>
        resp.status = 0 /\ resp.body = {}

\* a call in which the soil chart is built and the crop productivity division then raises
C27_DivisionRaisesAfterSoilChart ==
    /\ resp.handler = "generate_land_analysis_charts"
    /\ soil_distribution_of(land_parcels) # {}
    /\ ~pie_raises(soil_distribution_of(land_parcels))
    /\ chart_crop_division_raises
    /\ resp.body = {}

\* C28: after any sequence of signups and profile updates no two user accounts have the
\* same email address.
C28_EmailsUnique ==
    \A u, v \in users : u.email = v.email => u.id = v.id

\* C29: for every store, the overview statistics of home and dashboard are the store's
\* values: the number of land holders, the number of parcels and the sum of
\* cultivated_area; the zero fallback is not shown for a populated store.
C29_OverviewStatsMatchStore ==
    /\ resp.handler = "home" /\ resp.status = 200 =>
           /\ resp.body.total_land_holders = Cardinality(land_holders)
           /\ resp.body.total_parcels = Cardinality(land_parcels)
           /\ resp.body.total_cultivated_area = SumField(land_parcels, "cultivated_area")
    /\ resp.handler = "dashboard" /\ resp.status = 200 =>
           /\ resp.body.stats.total_land_holders = Cardinality(land_holders)
           /\ resp.body.stats.total_parcels = Cardinality(land_parcels)
           /\ resp.body.stats.total_cultivated_area = SumField(land_parcels, "cultivated_area")

\* C30: a response to a request that is not logged in carries no data derived from the
\* entity store: it is a redirect to the login page, or a public page whose statistics
\* are those of an empty store whatever the store holds.
C30_AnonymousSeesNoEntityData ==
    "authenticated" \in DOMAIN resp.args /\ ~resp.args.authenticated =>
        \/ resp.status = 302 /\ resp.body.redirect = "login"
        \/ /\ resp.body.global_stats.total_land_holders = 0
           /\ resp.body.global_stats.total_parcels = 0
           /\ resp.body.global_stats.total_cultivated_area = 0
           /\ resp.body.global_stats.total_crops_planted = 0

\* C30, the handlers that read entities: each answers a visitor with the redirect
C30_LoginRequiredRedirects ==
    "authenticated" \in DOMAIN resp.args /\ ~resp.args.authenticated
        /\ resp.handler \in LOGIN_REQUIRED =>
        resp.status = 302 /\ resp.body = [redirect |-> "login"]

====
